---- MODULE Spec2Model ----
(***************************************************************************)
(* Model of the stream backlog queue (matchfinder_cli) and of the match    *)
(* importer (db/importer) of wtt-youtube-organizer.                        *)
(*                                                                         *)
(* Strings are modelled as sequences of tokens: a title is a sequence of   *)
(* words and "|" tokens, a player string a sequence of name words, "/"     *)
(* and " " tokens.  A YYYYMMDD upload date is a day number (0 is the empty *)
(* string, which sorts below every date); a time.Time is a number of       *)
(* seconds.                                                                *)
(***************************************************************************)
EXTENDS Integers, Sequences, FiniteSets, TLC

\* ------------------------------------------------------------------ bounds
\* Highest value the id sequence of matches may have when an import begins
\* (the other sequences are bounded by the names that exist).
MaxSeq == 3
\* Number of time.Now() readings the model distinguishes.
MaxClock == 2

\* --------------------------------------------------------- generic helpers
Last(s) == s[Len(s)]

Front(s) == SubSeq(s, 1, Len(s) - 1)

Range(s) == {s[i] : i \in 1..Len(s)}

RECURSIVE SelectIdx(_, _, _)
\* Indices i >= from of s with s[i] = tok, ascending.
SelectIdx(s, tok, from) ==
    IF from > Len(s) THEN <<>>
    ELSE IF s[from] = tok THEN <<from>> \o SelectIdx(s, tok, from + 1)
    ELSE SelectIdx(s, tok, from + 1)

\* strings.Split(s, sep) on a token sequence: the parts between separators.
Split(s, sep) ==
    LET cuts == <<0>> \o SelectIdx(s, sep, 1) \o <<Len(s) + 1>>
    IN  [k \in 1..(Len(cuts) - 1) |-> SubSeq(s, cuts[k] + 1, cuts[k + 1] - 1)]

RECURSIVE TrimLeft(_)
TrimLeft(s) == IF s # <<>> /\ Head(s) = " " THEN TrimLeft(Tail(s)) ELSE s

RECURSIVE TrimRight(_)
TrimRight(s) == IF s # <<>> /\ Last(s) = " " THEN TrimRight(Front(s)) ELSE s

\* strings.TrimSpace
TrimSpace(s) == TrimRight(TrimLeft(s))

\* strings.Fields: the words of a segment (whitespace tokens removed).
Fields(s) == SelectSeq(s, LAMBDA t : t # " ")

\* strconv.Atoi on a word: its value, or -1 for a word that is no integer.
Atoi(w) ==
    CASE w = "2026" -> 2026
      [] w = "2019" -> 2019
      [] w = "2020" -> 2020
      [] w = "2100" -> 2100
      [] w = "2101" -> 2101
      [] OTHER -> -1

\* strings.ToLower on a word.
ToLower(w) ==
    CASE w = "WTT" -> "wtt"
      [] w = "Chennai" -> "chennai"
      [] w = "Doha" -> "doha"
      [] OTHER -> w

\* ---------------------------------------------------------------- time
SecondsPerDay == 24 * 60 * 60

\* time.Parse("20060102", d) for a well-formed date d.
DateToTime(d) == d * SecondsPerDay

\* time.Format("20060102") of a stored time.
FormatDate(t) == t \div SecondsPerDay

\* First wall-clock reading of the model; later than every upload date.
NowBase == 9 * SecondsPerDay

\* ------------------------------------------------------- importer parsing
\* YearMin/YearMax: the plausible-year window of parseTournamentFromTitle.
YearMin == 2020

YearMax == 2100

NoTournament == [ok |-> FALSE, name |-> <<>>, year |-> 0]

RECURSIVE ScanParts(_, _)
ScanParts(parts, i) ==
    IF i > Len(parts) THEN NoTournament
    ELSE LET words == Fields(TrimSpace(parts[i]))
         IN  IF Len(words) < 2 THEN ScanParts(parts, i + 1)
             ELSE LET year == Atoi(Last(words))
                  IN  IF year = -1 \/ year < YearMin \/ year > YearMax
                      THEN ScanParts(parts, i + 1)
                      ELSE [ok |-> TRUE,
                            name |-> [k \in 1..(Len(words) - 1) |-> ToLower(words[k])],
                            year |-> year]

\* Variant of parseTournamentFromTitle that looks at every part.
parseTournamentFromTitleAllParts(title) ==
    LET parts == Split(title, "|")
    IN  IF Len(parts) < 3 THEN NoTournament
        ELSE ScanParts(parts, 1)

parseTournamentFromTitle(title) ==
    LET parts == Split(title, "|")
    IN  IF Len(parts) < 3 THEN NoTournament
        ELSE ScanParts(parts, 3)

RECURSIVE NonEmptyTrimmed(_)
NonEmptyTrimmed(parts) ==
    IF parts = <<>> THEN <<>>
    ELSE LET trimmed == TrimSpace(Head(parts))
         IN  (IF trimmed # <<>> THEN <<trimmed>> ELSE <<>>) \o NonEmptyTrimmed(Tail(parts))

parsePlayerName(name) ==
    IF "/" \in Range(name)
    THEN NonEmptyTrimmed(Split(name, "/"))
    ELSE <<TrimSpace(name)>>

\* parseUploadDate: ok is FALSE for the empty string (day 0).
parseUploadDate(d) ==
    IF d = 0 THEN [ok |-> FALSE, t |-> 0] ELSE [ok |-> TRUE, t |-> DateToTime(d)]

\* ------------------------------------------------------- the video channel
\* The channel's playlist, oldest first.  Playlist[1..published] is visible
\* to the fetcher and to the OCR container.
Playlist == <<"v1", "v2", "v3", "v4">>

TitleChennai == <<"LIVE!", "|", "Day", "4", "|", "WTT", "Star", "Chennai", "2026", "|",
                  "Singles", "&", "Doubles">>

TitleDoha == <<"LIVE!", "|", "Day", "2", "|", "Singles", "|", " ", "WTT", "Doha", "2026", " ">>

\* A channel whose videos all carry an upload date (YYYYMMDD as a day
\* number), and one whose newest video carries none.
DatedChannel ==
    [id \in Range(Playlist) |->
        [title |-> IF id = "v3" THEN TitleDoha ELSE TitleChennai,
         date |-> CASE id = "v1" -> 1 [] id = "v2" -> 2 [] id = "v3" -> 3 [] OTHER -> 4]]

UndatedChannel == [DatedChannel EXCEPT !["v4"].date = 0]

\* The title of v3 with the tournament in other letter case.
TitleDohaLower == <<"LIVE!", "|", "Day", "3", "|", "wtt", "Doha", "2026">>

\* A title without a tournament and year, and a channel whose video v3
\* carries it.
TitleFinals == <<"LIVE!", "|", "Finals">>

UntitledChannel == [DatedChannel EXCEPT !["v3"].title = TitleFinals]

\* Position of a video in the playlist (0 if it is not in the playlist).
PosOf(id) == IF \E i \in 1..Len(Playlist) : Playlist[i] = id
             THEN CHOOSE i \in 1..Len(Playlist) : Playlist[i] = id
             ELSE 0

Singles == [timestamp |-> 600, player1 |-> <<"Zhang">>, player2 |-> <<" ", "Bo">>]

Doubles == [timestamp |-> 1200, player1 |-> <<"Zhang", "/", "Bo">>,
            player2 |-> <<"Ma", " ", "/", " ", "Xu", "/">>]

\* The match lists the OCR container can report for a video.
PayloadsOf(id) ==
    CASE id = "v2" -> {<<Singles>>, <<Doubles>>}
      [] id = "v3" -> {<<Singles, Doubles>>}
      [] OTHER -> {<<>>}

\* QueueEntry{VideoID, VideoTitle, UploadDate} of a video of channel ch.
QueueEntry(ch, id) == [VideoID |-> id, VideoTitle |-> ch[id].title, UploadDate |-> ch[id].date]

\* VideoJSON{VideoID, VideoTitle, UploadDate, Matches} of a video of channel ch.
VideoJSON(ch, id, matches) ==
    [VideoID |-> id, VideoTitle |-> ch[id].title, UploadDate |-> ch[id].date,
     Matches |-> matches]

\* ------------------------------------------------------------ the database
EmptyDB ==
    [tournaments |-> {}, players |-> {}, videos |-> {}, matches |-> {},
     match_participants |-> {}]

\* The id sequences of the serial columns (last value handed out).  An open
\* transaction draws from its own copy, which is kept at commit; the ids a
\* rolled back transaction drew are handed out again (an abstraction: ids
\* only name rows, and no property below depends on their values).
EmptySeq == [tournaments |-> 0, players |-> 0, videos |-> 0, matches |-> 0]

\* SELECT id FROM tournaments WHERE name=$1 AND year=$2
SelectTournament(t, name, year) ==
    {r.id : r \in {x \in t.tournaments : x.name = name /\ x.year = year}}

\* SELECT id FROM videos WHERE youtube_id=$1
SelectVideo(t, youtubeID) ==
    {r.id : r \in {x \in t.videos : x.youtube_id = youtubeID}}

\* Variant of SelectPlayer that finds no row.
SelectPlayerNone(t, name) == {}

\* SELECT id FROM players WHERE name=$1
SelectPlayer(t, name) ==
    {r.id : r \in {x \in t.players : x.name = name}}

\* QueryRow(...).Scan: the first row of a non-empty result.
ScanId(ids) == CHOOSE i \in ids : \A j \in ids : i <= j

\* Variant of GetOrCreateTournament that inserts without looking up.
GetOrCreateTournamentInsert(t, s, name, year) ==
    LET id == s.tournaments + 1
    IN  [t |-> [t EXCEPT !.tournaments = @ \cup {[id |-> id, name |-> name, year |-> year]}],
         s |-> [s EXCEPT !.tournaments = id],
         id |-> id]

\* Get or Create Tournament: the tables, the sequences and the id after it.
GetOrCreateTournament(t, s, name, year) ==
    LET found == SelectTournament(t, name, year)
    IN  IF found # {}
        THEN [t |-> t, s |-> s, id |-> ScanId(found)]
        ELSE LET id == s.tournaments + 1
             IN  [t |-> [t EXCEPT !.tournaments = @ \cup {[id |-> id, name |-> name, year |-> year]}],
                  s |-> [s EXCEPT !.tournaments = id],
                  id |-> id]

\* Variant of DeleteParticipants that also deletes the players of the
\* deleted participants.
DeleteParticipantsAndPlayers(t, videoID) ==
    LET mids == {m.id : m \in {x \in t.matches : x.video_id = videoID}}
        gone == {p.player_id : p \in {x \in t.match_participants : x.match_id \in mids}}
    IN  [t EXCEPT !.match_participants = {p \in @ : p.match_id \notin mids},
                  !.players = {pl \in @ : pl.id \notin gone}]

\* DELETE FROM match_participants WHERE match_id IN
\*   (SELECT id FROM matches WHERE video_id=$1)
DeleteParticipants(t, videoID) ==
    LET mids == {m.id : m \in {x \in t.matches : x.video_id = videoID}}
    IN  [t EXCEPT !.match_participants = {p \in @ : p.match_id \notin mids}]

\* Variant of DeleteMatches that keeps the old matches.
DeleteMatchesKeep(t, videoID) == t

\* DELETE FROM matches WHERE video_id=$1
DeleteMatches(t, videoID) ==
    [t EXCEPT !.matches = {m \in @ : m.video_id # videoID}]

\* UPDATE videos SET title=$1, upload_date=$2 WHERE id=$3
UpdateVideo(t, videoID, title, uploadDate) ==
    [t EXCEPT !.videos = {IF v.id = videoID
                          THEN [v EXCEPT !.title = title, !.upload_date = uploadDate]
                          ELSE v : v \in @}]

\* Variant of GetOrCreateVideo that deletes the matches of an existing video
\* before their participants.
GetOrCreateVideoMatchesFirst(t, s, vj, uploadDate) ==
    LET found == SelectVideo(t, vj.VideoID)
    IN  IF found = {}
        THEN LET id == s.videos + 1
             IN  [t |-> [t EXCEPT !.videos = @ \cup
                            {[id |-> id, youtube_id |-> vj.VideoID, title |-> vj.VideoTitle,
                              upload_date |-> uploadDate, last_processed |-> FALSE]}],
                  s |-> [s EXCEPT !.videos = id],
                  id |-> id]
        ELSE LET id == ScanId(found)
             IN  [t |-> DeleteParticipants(DeleteMatches(
                            UpdateVideo(t, id, vj.VideoTitle, uploadDate), id), id),
                  s |-> s,
                  id |-> id]

\* Get or create the videos row; an existing video is updated and its
\* matches and their participants are deleted.
GetOrCreateVideo(t, s, vj, uploadDate) ==
    LET found == SelectVideo(t, vj.VideoID)
    IN  IF found = {}
        THEN LET id == s.videos + 1
             IN  [t |-> [t EXCEPT !.videos = @ \cup
                            {[id |-> id, youtube_id |-> vj.VideoID, title |-> vj.VideoTitle,
                              upload_date |-> uploadDate, last_processed |-> FALSE]}],
                  s |-> [s EXCEPT !.videos = id],
                  id |-> id]
        ELSE LET id == ScanId(found)
             IN  [t |-> DeleteMatches(DeleteParticipants(
                            UpdateVideo(t, id, vj.VideoTitle, uploadDate), id), id),
                  s |-> s,
                  id |-> id]

\* Get or create the player and link it to the match, on tables and
\* sequences ts.
LinkPlayerOn(ts, matchID, name, side) ==
    LET found == SelectPlayer(ts.t, name)
        pid == IF found # {} THEN ScanId(found) ELSE ts.s.players + 1
        t1 == IF found # {} THEN ts.t
              ELSE [ts.t EXCEPT !.players = @ \cup {[id |-> pid, name |-> name]}]
        s1 == IF found # {} THEN ts.s ELSE [ts.s EXCEPT !.players = pid]
    IN  [t |-> [t1 EXCEPT !.match_participants = @ \cup
                   {[match_id |-> matchID, player_id |-> pid, side |-> side]}],
         s |-> s1]

\* One iteration of the teamA / teamB loops: get or create the player and
\* link it to the match.  (The tables the previous iteration left are a
\* value v here, worked out once.)
LinkPlayer(ts, matchID, name, side) ==
    CHOOSE r \in {LinkPlayerOn(v, matchID, name, side) : v \in {ts}} : TRUE

RECURSIVE LinkTeam(_, _, _, _)
LinkTeam(ts, matchID, team, side) ==
    IF team = <<>> THEN ts
    ELSE LinkTeam(LinkPlayer(ts, matchID, Head(team), side), matchID, Tail(team), side)

\* Variant of IsDoubles that wants two names on both sides.
IsDoublesBoth(teamA, teamB) == Len(teamA) > 1 /\ Len(teamB) > 1

\* isDoubles := len(teamA) > 1 || len(teamB) > 1
IsDoubles(teamA, teamB) == Len(teamA) > 1 \/ Len(teamB) > 1

\* Variant of MatchTime that ignores the timestamp of the match.
MatchTimeOfVideo(uploadDate, timestamp) == uploadDate

\* matchTime := uploadDate.Add(time.Duration(matchJSON.Timestamp) * time.Second)
MatchTime(uploadDate, timestamp) == uploadDate + timestamp

\* The body of the loop over videoJSON.Matches for one match.
InsertMatch(t, s, mj, tournamentID, uploadDate, videoID) ==
    LET teamA == parsePlayerName(mj.player1)
        teamB == parsePlayerName(mj.player2)
        matchID == s.matches + 1
        t1 == [t EXCEPT !.matches = @ \cup
                 {[id |-> matchID, tournament_id |-> tournamentID,
                   match_timestamp |-> MatchTime(uploadDate, mj.timestamp),
                   is_doubles |-> IsDoubles(teamA, teamB), video_id |-> videoID]}]
        s1 == [s EXCEPT !.matches = matchID]
        a == LinkTeam([t |-> t1, s |-> s1], matchID, teamA, "A")
    IN  LinkTeam(a, matchID, teamB, "B")

\* Variant of ClearLastProcessed that leaves the old flag in place.
ClearLastProcessedSkip(t) == t

\* UPDATE videos SET last_processed = NULL WHERE last_processed = true
ClearLastProcessed(t) ==
    [t EXCEPT !.videos = {[v EXCEPT !.last_processed = FALSE] : v \in @}]

\* UPDATE videos SET last_processed = true WHERE id = $1
SetLastProcessed(t, videoID) ==
    [t EXCEPT !.videos = {IF v.id = videoID THEN [v EXCEPT !.last_processed = TRUE] ELSE v : v \in @}]

\* isNewestVideo := videoIdx == 0 (videoIdx counts from 1 here).
IsNewestVideo(videoIdx) == videoIdx = 1

\* The last_processed block at the end of a video's transaction.
MarkNewest(t, videoIdx, videoID) ==
    IF IsNewestVideo(videoIdx) THEN SetLastProcessed(ClearLastProcessed(t), videoID) ELSE t

\* tx.Commit: the transaction's tables become the committed tables.
Commit(d, t) == t

\* Variant of Rollback that keeps what the transaction wrote.
RollbackKeep(d, t) == t

\* The deferred tx.Rollback: the committed tables stay as they were.
Rollback(d, t) == d

\* ------------------------------------------------- watermark access (reads)
\* The rows flagged last_processed.
Flagged(d) == {v \in d.videos : v.last_processed}

\* GetLastProcessedVideoID: "" if no video is marked.
GetLastProcessedVideoID(d) ==
    IF Flagged(d) = {} THEN ""
    ELSE (CHOOSE v \in Flagged(d) : \A w \in Flagged(d) : v.id <= w.id).youtube_id

\* GetLastProcessedUploadDate: the marked video's upload date as YYYYMMDD,
\* the empty string (0) if no video is marked.
GetLastProcessedUploadDate(d) ==
    IF Flagged(d) = {} THEN 0
    ELSE FormatDate((CHOOSE v \in Flagged(d) : \A w \in Flagged(d) : v.id <= w.id).upload_date)

\* UpdateLastProcessed(youtubeID): clear every flag, then flag the row of
\* youtubeID.
UpdateLastProcessed(d, youtubeID) ==
    [ClearLastProcessed(d) EXCEPT
        !.videos = {IF v.youtube_id = youtubeID THEN [v EXCEPT !.last_processed = TRUE] ELSE v
                    : v \in @}]

\* GetProcessedVideoIDs(ids): the ids that have a videos row.
GetProcessedVideoIDs(d, ids) == {id \in ids : SelectVideo(d, id) # {}}

\* ---------------------------------------------------------- queue functions
\* Variant of ShouldUpdateLastProcessed that wants a strictly newer date.
ShouldUpdateLastProcessedStrict(videoUploadDate, dbUploadDate) ==
    IF dbUploadDate = 0 THEN TRUE ELSE videoUploadDate > dbUploadDate

\* Dates are day numbers, in the order of their YYYYMMDD strings; the empty
\* string is 0, below every date as "" is below every string.
ShouldUpdateLastProcessed(videoUploadDate, dbUploadDate) ==
    IF dbUploadDate = 0 THEN TRUE ELSE videoUploadDate >= dbUploadDate

\* json.Marshal of a string escapes the quote and, for HTML safety, "&".
EscapeTok(tok) ==
    CASE tok = "&" -> "\\u0026"
      [] tok = "\"" -> "\\\""
      [] tok = "\\u0026" -> "\\\\u0026"
      [] OTHER -> tok

\* Variant of UnescapeTok that keeps the escape sequences.
UnescapeTokRaw(tok) == tok

\* json.Unmarshal of a string resolves the escape sequences.
UnescapeTok(tok) ==
    CASE tok = "\\u0026" -> "&"
      [] tok = "\\\"" -> "\""
      [] tok = "\\\\u0026" -> "\\u0026"
      [] OTHER -> tok

\* The JSON object of a QueueEntry: the three string fields, encoded.
MarshalEntry(e) ==
    [video_id |-> IF e.VideoID = "" THEN <<>> ELSE <<EscapeTok(e.VideoID)>>,
     video_title |-> [k \in 1..Len(e.VideoTitle) |-> EscapeTok(e.VideoTitle[k])],
     upload_date |-> IF e.UploadDate = 0 THEN <<>> ELSE <<e.UploadDate>>]

UnmarshalEntry(o) ==
    [VideoID |-> IF o.video_id = <<>> THEN "" ELSE UnescapeTok(o.video_id[1]),
     VideoTitle |-> [k \in 1..Len(o.video_title) |-> UnescapeTok(o.video_title[k])],
     UploadDate |-> IF o.upload_date = <<>> THEN 0 ELSE o.upload_date[1]]

\* json.MarshalIndent(queue, "", "  "): the document, an array of objects.
MarshalIndent(queue) == [i \in 1..Len(queue) |-> MarshalEntry(queue[i])]

\* json.Unmarshal(data, &queue) of a complete document.
Unmarshal(data) == [i \in 1..Len(data) |-> UnmarshalEntry(data[i])]

\* A file is absent, or holds a complete document (whole), or holds the
\* beginning of one: what os.WriteFile leaves when it stops after it has
\* truncated the file (every strict prefix of a document is malformed JSON).
NoFile == [exists |-> FALSE, whole |-> TRUE, data |-> <<>>]

TornFile == [exists |-> TRUE, whole |-> FALSE, data |-> <<>>]

\* Variant of LoadError that takes a malformed file for an empty queue.
LoadErrorIgnored(f) == FALSE

\* LoadQueue, the error: a file that exists and does not parse.
LoadError(f) == f.exists /\ ~f.whole

\* LoadQueue, the queue: empty when the file is absent (nil on an error).
LoadQueue(f) == IF f.exists /\ f.whole THEN Unmarshal(f.data) ELSE <<>>

\* SaveQueue when os.WriteFile has completed: the file holds the document.
SaveQueue(queue) == [exists |-> TRUE, whole |-> TRUE, data |-> MarshalIndent(queue)]

\* Variant of PrependToQueue that puts the new entries at the bottom.
PrependToQueueBelow(existingQueue, newEntries) ==
    IF Len(newEntries) = 0 THEN existingQueue ELSE existingQueue \o newEntries

PrependToQueue(existingQueue, newEntries) ==
    IF Len(newEntries) = 0 THEN existingQueue ELSE newEntries \o existingQueue

\* Variant of FilterUnprocessed that keeps every entry.
FilterUnprocessedNone(entries, processed) == entries

\* FilterUnprocessed given the checker's answer.
FilterUnprocessed(entries, processed) ==
    SelectSeq(entries, LAMBDA e : e.VideoID \notin processed)

\* Variant of FilterUnprocessedWithChecker that takes a failed check for
\* "nothing is processed".
FilterUnprocessedLenient(entries, processed, checkerFails) ==
    IF Len(entries) = 0 THEN [entries |-> entries, err |-> FALSE]
    ELSE IF checkerFails THEN [entries |-> entries, err |-> FALSE]
    ELSE [entries |-> FilterUnprocessed(entries, processed), err |-> FALSE]

\* FilterUnprocessed(entries, checker) as a whole: no check for no entries,
\* (nil, error) when checker.GetProcessedVideoIDs fails, else the filter.
FilterUnprocessedWithChecker(entries, processed, checkerFails) ==
    IF Len(entries) = 0 THEN [entries |-> entries, err |-> FALSE]
    ELSE IF checkerFails THEN [entries |-> <<>>, err |-> TRUE]
    ELSE [entries |-> FilterUnprocessed(entries, processed), err |-> FALSE]

\* QueueFileName: "" names latest_streams.json, id names streams_after_<id>.json.
QueueFileName(videoID) == IF videoID = "" THEN "latest_streams" ELSE videoID

\* The video ids a user passes to --add_new_streams (the queue is then
\* streams_after_<id>.json); "" stands for no argument.
ProvidedIDs == {"v1"}

QueueNames == {QueueFileName(id) : id \in ProvidedIDs \cup {""}}

\* Variant of FetchStreamsAfter that returns the cutoff video as well.
FetchStreamsAfterInclusive(ch, afterVideoID, n) ==
    LET lo == IF PosOf(afterVideoID) > 0 THEN PosOf(afterVideoID) - 1 ELSE 0
    IN  [i \in 1..(IF n > lo THEN n - lo ELSE 0) |-> QueueEntry(ch, Playlist[n + 1 - i])]

\* FetchStreamsAfter: the published videos after the cutoff, newest first.
FetchStreamsAfter(ch, afterVideoID, n) ==
    LET lo == PosOf(afterVideoID)
    IN  [i \in 1..(IF n > lo THEN n - lo ELSE 0) |-> QueueEntry(ch, Playlist[n + 1 - i])]

\* Variant of CutoffVideoID that always takes the argument.
CutoffVideoIDGiven(existingQueue, afterVideoID) == afterVideoID

\* AddNewStreams: the cutoff is the top entry of a non-empty queue, else the
\* afterVideoID argument.
CutoffVideoID(existingQueue, afterVideoID) ==
    IF Len(existingQueue) > 0 THEN existingQueue[1].VideoID ELSE afterVideoID

\* What can go wrong inside AddNewStreams: the fetcher or the checker fails,
\* SaveQueue fails before it has touched the file ("save") or after
\* os.WriteFile has truncated it ("write"), or the process is killed during
\* os.WriteFile ("kill").
AddFaults == {"ok", "fetch", "check", "save", "write", "kill"}

\* Variant of AddNewStreams that saves the queue when nothing is to be added.
AddNewStreamsSaveAlways(f, afterVideoID, ch, n, useChecker, d, fault) ==
    LET existingQueue == LoadQueue(f)
        cutoffVideoID == CutoffVideoID(existingQueue, afterVideoID)
        fetched == FetchStreamsAfter(ch, cutoffVideoID, n)
        newEntries == IF useChecker
                      THEN FilterUnprocessed(fetched,
                               GetProcessedVideoIDs(d, {e.VideoID : e \in Range(fetched)}))
                      ELSE fetched
        fail(calls) == [file |-> f, count |-> 0, err |-> TRUE, killed |-> FALSE,
                        fetches |-> calls]
        nothing == [file |-> SaveQueue(existingQueue), count |-> 0, err |-> FALSE,
                    killed |-> FALSE, fetches |-> <<cutoffVideoID>>]
    IN  IF LoadError(f) THEN fail(<<>>)
        ELSE IF cutoffVideoID = "" THEN fail(<<>>)
        ELSE IF fault = "fetch" THEN fail(<<cutoffVideoID>>)
        ELSE IF Len(fetched) = 0 THEN nothing
        ELSE IF useChecker /\ fault = "check" THEN fail(<<cutoffVideoID>>)
        ELSE IF Len(newEntries) = 0 THEN nothing
        ELSE IF fault = "save" THEN fail(<<cutoffVideoID>>)
        ELSE IF fault \in {"write", "kill"}
             THEN [file |-> TornFile, count |-> 0, err |-> fault = "write",
                   killed |-> fault = "kill", fetches |-> <<cutoffVideoID>>]
        ELSE [file |-> SaveQueue(PrependToQueue(existingQueue, newEntries)),
              count |-> Len(newEntries), err |-> FALSE, killed |-> FALSE,
              fetches |-> <<cutoffVideoID>>]

\* AddNewStreams(queuePath, afterVideoID, fetcher, checker...): the file it
\* leaves, the (count, error) it returns unless the process was killed, and
\* the cutoffs it called the fetcher with.
AddNewStreams(f, afterVideoID, ch, n, useChecker, d, fault) ==
    LET existingQueue == LoadQueue(f)
        cutoffVideoID == CutoffVideoID(existingQueue, afterVideoID)
        fetched == FetchStreamsAfter(ch, cutoffVideoID, n)
        newEntries == IF useChecker
                      THEN FilterUnprocessed(fetched,
                               GetProcessedVideoIDs(d, {e.VideoID : e \in Range(fetched)}))
                      ELSE fetched
        fail(calls) == [file |-> f, count |-> 0, err |-> TRUE, killed |-> FALSE,
                        fetches |-> calls]
        nothing == [file |-> f, count |-> 0, err |-> FALSE, killed |-> FALSE,
                    fetches |-> <<cutoffVideoID>>]
    IN  IF LoadError(f) THEN fail(<<>>)
        ELSE IF cutoffVideoID = "" THEN fail(<<>>)
        ELSE IF fault = "fetch" THEN fail(<<cutoffVideoID>>)
        ELSE IF Len(fetched) = 0 THEN nothing
        ELSE IF useChecker /\ fault = "check" THEN fail(<<cutoffVideoID>>)
        ELSE IF Len(newEntries) = 0 THEN nothing
        ELSE IF fault = "save" THEN fail(<<cutoffVideoID>>)
        ELSE IF fault \in {"write", "kill"}
             THEN [file |-> TornFile, count |-> 0, err |-> fault = "write",
                   killed |-> fault = "kill", fetches |-> <<cutoffVideoID>>]
        ELSE [file |-> SaveQueue(PrependToQueue(existingQueue, newEntries)),
              count |-> Len(newEntries), err |-> FALSE, killed |-> FALSE,
              fetches |-> <<cutoffVideoID>>]

\* ------------------------------------------------------------------ state
VARIABLES
    channel,     \* video id -> the title and upload date the channel reports
    files,       \* queue name -> queue file
    published,   \* number of playlist videos that exist on the channel
    db,          \* the committed tables
    seq,         \* the id sequences as of the last commit
    clock,       \* number of wall-clock readings taken so far
    pc,          \* position of the worker: "idle", a step of processQueueVideos,
                 \* or "returned" when a command has just ended
    qname,       \* processQueueVideos: the queue being processed
    queue,       \* processQueueVideos: queue
    entry,       \* processQueueVideos: entry
    isLastItem,  \* processQueueVideos: isLastItem
    outputFile,  \* the JSON file the container wrote for entry
    tx,          \* the tables and sequences as the open transaction sees them
    imp,         \* locals of ImportMatchesFromJSONWithConn
    result,      \* outcome of the command that just ended: "ok", "err", "crash"
    errAt,       \* the step at which that command failed or crashed
    run,         \* history of the processQueueVideos run in progress or just ended
    resume,      \* what the run that ended last left in its queue file
    imported,    \* video id -> the descriptor whose import committed last
    call,        \* the function call the command that just ended has made
    importers    \* importer process -> its position, JSON file, locals and open transaction

vars == <<channel, files, published, db, seq, clock, pc, qname, queue, entry, isLastItem,
          outputFile, tx, imp, result, errAt, run, resume, imported, call, importers>>

NoEntry == [VideoID |-> "", VideoTitle |-> <<>>, UploadDate |-> 0]

\* Variant of RemoveLastEntry that removes the first entry.
RemoveFirstEntry(q) ==
    IF Len(q) = 0 THEN [entry |-> NoEntry, queue |-> q]
    ELSE [entry |-> Head(q), queue |-> Tail(q)]

\* RemoveLastEntry: the removed entry and the updated queue.
RemoveLastEntry(q) ==
    IF Len(q) = 0 THEN [entry |-> NoEntry, queue |-> q]
    ELSE [entry |-> Last(q), queue |-> Front(q)]

\* TopEntry: the first entry and whether there is one.
TopEntry(q) ==
    IF Len(q) = 0 THEN [entry |-> NoEntry, found |-> FALSE]
    ELSE [entry |-> q[1], found |-> TRUE]

NoVideoJSON == [VideoID |-> "", VideoTitle |-> <<>>, UploadDate |-> 0, Matches |-> <<>>]

NoImp == [videoIdx |-> 0, tournamentID |-> 0, uploadDate |-> 0, videoID |-> 0, m |-> 0]

NoTx == [t |-> EmptyDB, s |-> EmptySeq]

\* Two importer processes, each with its own connection.
Importers == {1, 2}

\* An importer that has not been started: its position, its JSON file, the
\* tables as its statements see them (the committed rows and its own
\* writes), its locals, the <<name, side>> pairs of the current match still
\* to be linked, the keys its lookups did not find, the rows it inserted and
\* what it returned.
NoImporter ==
    [pc |-> "idle", file |-> NoVideoJSON, t |-> EmptyDB, tournamentID |-> 0, uploadDate |-> 0,
     videoID |-> 0, matchID |-> 0, m |-> 0, team |-> <<>>, missed |-> {}, drew |-> {},
     result |-> "none", err |-> ""]

NoImporters == [p \in Importers |-> NoImporter]

\* What a run leaves behind: its queue, the entries it left in the file, the
\* number of entries it removed, how and where it ended and the entry it was
\* processing then.
NoResume == [qn |-> "", rest |-> <<>>, k |-> 0, outcome |-> "none", at |-> "",
             entry |-> NoEntry]

\* q0: the queue at the first load; k: the saves that returned; done: the
\* videos whose import committed; wm0, wmDate0: the marked video and its
\* upload date when the run began; again: the import that has just committed
\* repeated the descriptor imported last for its video; before: that
\* descriptor (NoVideoJSON if the video had not been imported); prev: what the
\* previous run on this queue left behind, if it was the last command before
\* this run (kept until the first save of this run); readErr: the read of
\* the marked upload date has failed; advanced: the video ids for which
\* UpdateLastProcessed has returned nil in this run, in call order.
NoRun == [qn |-> "", started |-> FALSE, q0 |-> <<>>, k |-> 0, done |-> {},
          wm0 |-> "", wmDate0 |-> 0, again |-> FALSE, before |-> NoVideoJSON,
          prev |-> NoResume, readErr |-> FALSE, advanced |-> <<>>]

\* No call on record.
NoCall == [fn |-> "", args |-> [none |-> TRUE], out |-> [none |-> TRUE]]

TxSteps == {"tx_tournament", "tx_video", "tx_match", "tx_mark", "tx_commit"}

RunSteps == {"load", "docker", "import", "save", "mark"} \cup TxSteps

\* time.Now()
Now == NowBase + clock

Init ==
    /\ channel \in {DatedChannel, UndatedChannel}
    /\ files = [qn \in QueueNames |-> NoFile]
    /\ published = 2
    /\ db = EmptyDB
    /\ seq = EmptySeq
    /\ clock = 0
    /\ pc = "idle"
    /\ qname = ""
    /\ queue = <<>>
    /\ entry = NoEntry
    /\ isLastItem = FALSE
    /\ outputFile = NoVideoJSON
    /\ tx = NoTx
    /\ imp = NoImp
    /\ result = "none"
    /\ errAt = ""
    /\ run = NoRun
    /\ resume = NoResume
    /\ imported = [id \in Range(Playlist) |-> NoVideoJSON]
    /\ call = NoCall
    /\ importers = NoImporters

\* A command ends: its connection, with any open transaction, is gone.
Return(outcome, at) ==
    /\ pc' = "returned"
    /\ UNCHANGED <<channel, queue, entry, isLastItem, outputFile>>
    /\ tx' = NoTx
    /\ imp' = NoImp
    /\ result' = outcome
    /\ errAt' = at

\* The part of processQueueVideos a step belongs to: the work on the entry
\* ("import": container run and import; "title": the import's title parse),
\* "save", "mark" or "load".
PhaseOf(at) ==
    IF at \in {"docker", "import"} \cup TxSteps THEN "import" ELSE at

\* The process has exited; the next command starts from the files and the
\* database alone.
Exit ==
    /\ pc = "returned"
    /\ pc' = "idle"
    /\ qname' = ""
    /\ result' = "none"
    /\ errAt' = ""
    /\ queue' = <<>>
    /\ entry' = NoEntry
    /\ isLastItem' = FALSE
    /\ outputFile' = NoVideoJSON
    /\ run' = NoRun
    /\ resume' = IF run.started
                 THEN [qn |-> run.qn, rest |-> SubSeq(run.q0, 1, Len(run.q0) - run.k),
                       k |-> run.k, outcome |-> result, at |-> PhaseOf(errAt), entry |-> entry]
                 ELSE NoResume
    /\ call' = NoCall
    /\ UNCHANGED <<channel, files, published, db, seq, clock, tx, imp, imported, importers>>

\* A new video appears on the channel.
Publish ==
    /\ pc = "idle"
    /\ published < Len(Playlist)
    /\ published' = published + 1
    /\ UNCHANGED <<channel, files, db, seq, clock, pc, qname, queue, entry, isLastItem,
                   outputFile, tx, imp, result, errAt, run, resume, imported, call, importers>>

\* What can go wrong in an --add_new_streams command: the faults of
\* AddNewStreams, and a failed read of the last processed video ("db").
AddOutcomes == AddFaults \cup {"db"}

\* Variant of RunAddNewStreams that does not look at what the read of the
\* last processed video returned.
RunAddNewStreamsAnyCutoff(f, providedVideoID, ch, n, d, fault) ==
    LET existingQueue == LoadQueue(f)
        afterVideoID == IF Len(existingQueue) > 0 THEN existingQueue[1].VideoID
                        ELSE IF providedVideoID # "" THEN providedVideoID
                        ELSE GetLastProcessedVideoID(d)
    IN  IF LoadError(f)
        THEN [called |-> FALSE, afterVideoID |-> afterVideoID,
              out |-> [file |-> f, count |-> 0, err |-> TRUE, killed |-> FALSE,
                       fetches |-> <<>>]]
        ELSE [called |-> TRUE, afterVideoID |-> afterVideoID,
              out |-> AddNewStreams(f, afterVideoID, ch, n, providedVideoID # "", d, fault)]

\* runMatchFinder in --add_new_streams mode on queue file f: whether it got
\* as far as calling AddNewStreams, with which afterVideoID, and the outcome
\* (that of AddNewStreams if it was called).
RunAddNewStreams(f, providedVideoID, ch, n, d, fault) ==
    LET existingQueue == LoadQueue(f)
        fromDB == Len(existingQueue) = 0 /\ providedVideoID = ""
        afterVideoID == IF Len(existingQueue) > 0 THEN existingQueue[1].VideoID
                        ELSE IF providedVideoID # "" THEN providedVideoID
                        ELSE GetLastProcessedVideoID(d)
    IN  IF LoadError(f) \/ (fromDB /\ (fault = "db" \/ afterVideoID = ""))
        THEN [called |-> FALSE, afterVideoID |-> afterVideoID,
              out |-> [file |-> f, count |-> 0, err |-> TRUE, killed |-> FALSE,
                       fetches |-> <<>>]]
        ELSE [called |-> TRUE, afterVideoID |-> afterVideoID,
              out |-> AddNewStreams(f, afterVideoID, ch, n, providedVideoID # "", d, fault)]

\* runMatchFinder in --add_new_streams mode, with or without a VIDEO_ID.
AddNewStreamsCmd(providedVideoID, fault) ==
    /\ pc = "idle"
    /\ LET qn == QueueFileName(providedVideoID)
           c == RunAddNewStreams(files[qn], providedVideoID, channel, published, db, fault)
           r == c.out
       IN  /\ qname' = qn
           /\ IF ~c.called
              THEN /\ files' = files
                   /\ call' = NoCall
                   /\ Return("err", "add")
              ELSE /\ files' = [files EXCEPT ![qn] = r.file]
                   /\ call' = [fn |-> "AddNewStreams",
                               args |-> [file |-> files[qn], afterVideoID |-> c.afterVideoID,
                                         useChecker |-> providedVideoID # ""],
                               out |-> r]
                   /\ Return(IF r.killed THEN "crash" ELSE IF r.err THEN "err" ELSE "ok",
                             IF r.killed \/ r.err THEN "add" ELSE "")
    /\ run' = NoRun
    /\ resume' = NoResume
    /\ UNCHANGED <<channel, published, db, seq, clock, imported, importers>>

\* Variant of IsLastItem that is true for every entry.
IsLastItemAlways(q) == TRUE

\* isLastItem := len(queue) == 1
IsLastItem(q) == Len(q) = 1

\* runMatchFinder in --process mode enters processQueueVideos.
StartProcess(qn) ==
    /\ pc = "idle"
    /\ pc' = "load"
    /\ qname' = qn
    /\ run' = [NoRun EXCEPT !.qn = qn,
                            !.wm0 = GetLastProcessedVideoID(db),
                            !.wmDate0 = GetLastProcessedUploadDate(db),
                            !.prev = IF resume.qn = qn THEN resume ELSE NoResume]
    /\ resume' = NoResume
    /\ UNCHANGED <<channel, files, published, db, seq, clock, queue, entry, isLastItem,
                   outputFile, tx, imp, result, errAt, imported, call, importers>>

\* Variant of LoadStep that picks the first (newest) entry.
LoadStepNewest ==
    /\ pc = "load"
    /\ LET q == LoadQueue(files[qname])
       IN  IF LoadError(files[qname])
           THEN /\ Return("err", "load")
                /\ UNCHANGED <<qname, run>>
           ELSE IF Len(q) = 0
           THEN /\ Return("ok", "")
                /\ run' = IF run.started THEN run ELSE [run EXCEPT !.started = TRUE]
                /\ UNCHANGED qname
           ELSE /\ queue' = q
                /\ entry' = Head(q)
                /\ isLastItem' = IsLastItem(q)
                /\ pc' = "docker"
                /\ run' = IF run.started THEN run
                          ELSE [run EXCEPT !.started = TRUE, !.q0 = q]
                /\ UNCHANGED <<qname, outputFile, tx, imp, result, errAt>>
    /\ UNCHANGED <<channel, files, published, db, seq, clock, resume, imported, call, importers>>

\* Top of the loop: reload the queue (a file that does not parse ends the
\* run), return when it is empty, else pick the last entry.
LoadStep ==
    /\ pc = "load"
    /\ LET q == LoadQueue(files[qname])
       IN  IF LoadError(files[qname])
           THEN /\ Return("err", "load")
                /\ UNCHANGED <<qname, run>>
           ELSE IF Len(q) = 0
           THEN /\ Return("ok", "")
                /\ run' = IF run.started THEN run ELSE [run EXCEPT !.started = TRUE]
                /\ UNCHANGED qname
           ELSE /\ queue' = q
                /\ entry' = Last(q)
                /\ isLastItem' = IsLastItem(q)
                /\ pc' = "docker"
                /\ run' = IF run.started THEN run
                          ELSE [run EXCEPT !.started = TRUE, !.q0 = q]
                /\ UNCHANGED <<qname, outputFile, tx, imp, result, errAt>>
    /\ UNCHANGED <<channel, files, published, db, seq, clock, resume, imported, call, importers>>

\* Variant of RunDocker that drops the entry from the file when the
\* container fails.
RunDockerDropOnError ==
    /\ pc = "docker"
    /\ \/ /\ \E matches \in PayloadsOf(entry.VideoID) :
                outputFile' = VideoJSON(channel, entry.VideoID, matches)
          /\ pc' = "import"
          /\ UNCHANGED <<files, queue, entry, isLastItem, tx, imp, result, errAt>>
       \/ /\ Return("err", "docker")
          /\ files' = [files EXCEPT ![qname] = SaveQueue(Front(queue))]
    /\ UNCHANGED <<channel, published, db, seq, clock, qname, run, resume, imported, call, importers>>

\* runDockerContainer for entry: it writes the video's JSON, or fails.
RunDocker ==
    /\ pc = "docker"
    /\ \/ /\ \E matches \in PayloadsOf(entry.VideoID) :
                outputFile' = VideoJSON(channel, entry.VideoID, matches)
          /\ pc' = "import"
          /\ UNCHANGED <<queue, entry, isLastItem, tx, imp, result, errAt>>
       \/ Return("err", "docker")
    /\ UNCHANGED <<channel, files, published, db, seq, clock, qname, run, resume, imported, call, importers>>

\* A JSON file that holds an array of VideoJSON objects; any other file
\* holds a single VideoJSON object.
JSONArray(videos) == [videos |-> videos]

\* json.Unmarshal into []VideoJSON succeeds.
IsArray(file) == "videos" \in DOMAIN file

\* Variant of VideosOf that keeps only the first video of an array.
VideosOfFirst(file) ==
    IF IsArray(file)
    THEN (IF Len(file.videos) = 0 THEN <<>> ELSE <<file.videos[1]>>)
    ELSE <<file>>

\* The videos array ImportMatchesFromJSONWithConn reads from the JSON file:
\* a single object becomes an array of one.
VideosOf(file) == IF IsArray(file) THEN file.videos ELSE <<file>>

\* Variant of ImportBegin that returns nil without importing anything.
ImportBeginSkip ==
    /\ pc = "import"
    /\ pc' = "save"
    /\ UNCHANGED <<channel, files, published, db, seq, clock, qname, queue, entry, isLastItem,
                   outputFile, tx, imp, result, errAt, run, resume, imported, call, importers>>

\* ImportMatchesFromJSON up to conn.Begin for the next video of the array:
\* reading the file or parsing the title may fail before any transaction,
\* and an array without videos is an error.
ImportBegin ==
    /\ pc = "import"
    /\ seq.matches <= MaxSeq
    /\ IF Len(VideosOf(outputFile)) = 0
       THEN Return("err", "import")
       ELSE LET videoJSON == VideosOf(outputFile)[imp.videoIdx + 1]
            IN  \/ /\ parseTournamentFromTitle(videoJSON.VideoTitle).ok
                   /\ tx' = [t |-> db, s |-> seq]
                   /\ imp' = [imp EXCEPT !.videoIdx = @ + 1]
                   /\ pc' = "tx_tournament"
                   /\ UNCHANGED <<queue, entry, isLastItem, outputFile, result, errAt>>
                \/ /\ ~parseTournamentFromTitle(videoJSON.VideoTitle).ok
                   /\ Return("err", "title")
                \/ Return("err", "import")
    /\ UNCHANGED <<channel, files, published, db, seq, clock, qname, run, resume, imported, call, importers>>

\* Get or Create Tournament.
TxTournament ==
    /\ pc = "tx_tournament"
    /\ LET videoJSON == VideosOf(outputFile)[imp.videoIdx]
           tour == parseTournamentFromTitle(videoJSON.VideoTitle)
           r == GetOrCreateTournament(tx.t, tx.s, tour.name, tour.year)
       IN  /\ tx' = [t |-> r.t, s |-> r.s]
           /\ imp' = [imp EXCEPT !.tournamentID = r.id]
    /\ pc' = "tx_video"
    /\ UNCHANGED <<channel, files, published, db, seq, clock, qname, queue, entry, isLastItem,
                   outputFile, result, errAt, run, resume, imported, call, importers>>

\* Parse the upload date (current time if malformed), then get or create the
\* video row and clear the matches of an existing video.
TxVideo ==
    /\ pc = "tx_video"
    /\ LET videoJSON == VideosOf(outputFile)[imp.videoIdx]
           parsed == parseUploadDate(videoJSON.UploadDate)
           uploadDate == IF parsed.ok THEN parsed.t ELSE Now
           r == GetOrCreateVideo(tx.t, tx.s, videoJSON, uploadDate)
       IN  /\ parsed.ok \/ clock < MaxClock
           /\ clock' = IF parsed.ok THEN clock ELSE clock + 1
           /\ tx' = [t |-> r.t, s |-> r.s]
           /\ imp' = [imp EXCEPT !.uploadDate = uploadDate, !.videoID = r.id, !.m = 1]
    /\ pc' = "tx_match"
    /\ UNCHANGED <<channel, files, published, db, seq, qname, queue, entry, isLastItem,
                   outputFile, result, errAt, run, resume, imported, call, importers>>

\* One iteration of the loop over videoJSON.Matches, or its exit.
TxMatch ==
    /\ pc = "tx_match"
    /\ LET videoJSON == VideosOf(outputFile)[imp.videoIdx]
       IN  IF imp.m <= Len(videoJSON.Matches)
           THEN /\ tx' = InsertMatch(tx.t, tx.s, videoJSON.Matches[imp.m], imp.tournamentID,
                                     imp.uploadDate, imp.videoID)
                /\ imp' = [imp EXCEPT !.m = @ + 1]
                /\ pc' = pc
           ELSE /\ pc' = "tx_mark"
                /\ UNCHANGED <<tx, imp>>
    /\ UNCHANGED <<channel, files, published, db, seq, clock, qname, queue, entry, isLastItem,
                   outputFile, result, errAt, run, resume, imported, call, importers>>

\* The last_processed block.
TxMark ==
    /\ pc = "tx_mark"
    /\ tx' = [tx EXCEPT !.t = MarkNewest(tx.t, imp.videoIdx, imp.videoID)]
    /\ pc' = "tx_commit"
    /\ UNCHANGED <<channel, files, published, db, seq, clock, qname, queue, entry, isLastItem,
                   outputFile, imp, result, errAt, run, resume, imported, call, importers>>

\* tx.Commit, then the next video of the array or the return to
\* processQueueVideos.
TxCommit ==
    /\ pc = "tx_commit"
    /\ db' = Commit(db, tx.t)
    /\ seq' = tx.s
    /\ tx' = NoTx
    /\ LET videoJSON == VideosOf(outputFile)[imp.videoIdx]
       IN  /\ imported' = [imported EXCEPT ![videoJSON.VideoID] = videoJSON]
           /\ run' = [run EXCEPT !.done = @ \cup {videoJSON.VideoID},
                                  !.again = (imported[videoJSON.VideoID] = videoJSON),
                                  !.before = imported[videoJSON.VideoID]]
    /\ IF imp.videoIdx < Len(VideosOf(outputFile))
       THEN /\ pc' = "import"
            /\ imp' = [NoImp EXCEPT !.videoIdx = imp.videoIdx]
       ELSE /\ pc' = "save"
            /\ imp' = NoImp
    /\ UNCHANGED <<channel, files, published, clock, qname, queue, entry, isLastItem,
                   outputFile, result, errAt, resume, call, importers>>

\* A statement of the transaction (or the commit) fails: the import returns
\* the error, the deferred Rollback runs and processQueueVideos returns.
TxFail ==
    /\ pc \in TxSteps
    /\ db' = Rollback(db, tx.t)
    /\ Return("err", pc)
    /\ UNCHANGED <<channel, files, published, seq, clock, qname, run, resume, imported, call, importers>>

\* Variant of RemoveProcessed that drops the first (newest) entry.
RemoveProcessedNewest(q) == Tail(q)

\* queue = queue[:len(queue)-1]
RemoveProcessed(q) == Front(q)

\* Variant of SaveStep that reloads the file and removes its last entry.
SaveStepReload ==
    /\ pc = "save"
    /\ \/ /\ queue' = RemoveProcessed(LoadQueue(files[qname]))
          /\ files' = [files EXCEPT ![qname] =
                           SaveQueue(RemoveProcessed(LoadQueue(files[qname])))]
          /\ pc' = IF isLastItem THEN "mark" ELSE "load"
          /\ run' = [run EXCEPT !.k = @ + 1, !.again = FALSE, !.before = NoVideoJSON,
                                 !.prev = NoResume]
          /\ UNCHANGED <<entry, isLastItem, outputFile, tx, imp, result, errAt>>
       \/ /\ Return("err", "save")
          /\ UNCHANGED <<files, run>>
       \/ /\ \E outcome \in {"err", "crash"} : Return(outcome, "write")
          /\ files' = [files EXCEPT ![qname] = TornFile]
          /\ UNCHANGED run
    /\ UNCHANGED <<channel, published, db, seq, clock, qname, resume, imported, call, importers>>

\* Remove the processed video from the queue and save it.  SaveQueue
\* succeeds, or fails before it has touched the file, or os.WriteFile stops
\* (with an error, or because the process is killed) after it has truncated
\* the file.
SaveStep ==
    /\ pc = "save"
    /\ \/ /\ queue' = RemoveProcessed(queue)
          /\ files' = [files EXCEPT ![qname] = SaveQueue(RemoveProcessed(queue))]
          /\ pc' = IF isLastItem THEN "mark" ELSE "load"
          /\ run' = [run EXCEPT !.k = @ + 1, !.again = FALSE, !.before = NoVideoJSON,
                                 !.prev = NoResume]
          /\ UNCHANGED <<entry, isLastItem, outputFile, tx, imp, result, errAt>>
       \/ /\ Return("err", "save")
          /\ UNCHANGED <<files, run>>
       \/ /\ \E outcome \in {"err", "crash"} : Return(outcome, "write")
          /\ files' = [files EXCEPT ![qname] = TornFile]
          /\ UNCHANGED run
    /\ UNCHANGED <<channel, published, db, seq, clock, qname, resume, imported, call, importers>>

\* if isLastItem: read the marked upload date (a failed read is only a
\* warning and leaves dbUploadDate empty) and update last_processed.
MarkStep ==
    /\ pc = "mark"
    /\ \E readOK \in BOOLEAN :
        LET dbUploadDate == IF readOK THEN GetLastProcessedUploadDate(db) ELSE 0
        IN  IF ShouldUpdateLastProcessed(entry.UploadDate, dbUploadDate)
            THEN \/ /\ db' = UpdateLastProcessed(db, entry.VideoID)
                    /\ run' = [run EXCEPT !.readErr = ~readOK,
                                           !.advanced = Append(@, entry.VideoID)]
                    /\ pc' = "load"
                    /\ UNCHANGED <<queue, entry, isLastItem, outputFile, tx, imp,
                                   result, errAt>>
                 \/ /\ db' = db
                    /\ run' = [run EXCEPT !.readErr = ~readOK]
                    /\ Return("err", "mark")
            ELSE /\ db' = db
                 /\ run' = [run EXCEPT !.readErr = ~readOK]
                 /\ pc' = "load"
                 /\ UNCHANGED <<queue, entry, isLastItem, outputFile, tx, imp,
                                result, errAt>>
    /\ UNCHANGED <<channel, files, published, seq, clock, qname, resume, imported, call, importers>>

\* The process is killed: its locals and its open transaction are lost.
Crash ==
    /\ pc \in RunSteps
    /\ Return("crash", pc)
    /\ UNCHANGED <<channel, files, published, db, seq, clock, qname, run, resume, imported, call, importers>>

Next ==
    \/ Publish
    \/ \E id \in ProvidedIDs \cup {""}, fault \in AddOutcomes : AddNewStreamsCmd(id, fault)
    \/ \E qn \in QueueNames : StartProcess(qn)
    \/ LoadStep
    \/ RunDocker
    \/ ImportBegin
    \/ TxTournament
    \/ TxVideo
    \/ TxMatch
    \/ TxMark
    \/ TxCommit
    \/ TxFail
    \/ SaveStep
    \/ MarkStep
    \/ Crash
    \/ Exit

Spec == Init /\ [][Next]_vars

\* A second process runs --add_new_streams on the queue file the drain is
\* working on, between the drain's LoadQueue and its SaveQueue (before the
\* container starts or after the import has returned), and its AddNewStreams
\* writes the file.
AddNewStreamsDuring(providedVideoID, fault) ==
    /\ pc \in {"docker", "save"}
    /\ QueueFileName(providedVideoID) = qname
    /\ LET c == RunAddNewStreams(files[qname], providedVideoID, channel, published, db, fault)
       IN  /\ c.called
           /\ c.out.file # files[qname]
           /\ files' = [files EXCEPT ![qname] = c.out.file]
           /\ call' = [fn |-> "AddNewStreams",
                       args |-> [file |-> files[qname], afterVideoID |-> c.afterVideoID,
                                 useChecker |-> providedVideoID # ""],
                       out |-> c.out]
    /\ UNCHANGED <<channel, published, db, seq, clock, pc, qname, queue, entry, isLastItem,
                   outputFile, tx, imp, result, errAt, run, resume, imported, importers>>

NextC ==
    \/ Next
    \/ \E id \in ProvidedIDs \cup {""}, fault \in AddOutcomes : AddNewStreamsDuring(id, fault)

\* A second process runs --add_new_streams on the queue file the drain is
\* working on, between two iterations of the drain (after a SaveQueue and
\* before the next LoadQueue), once in a run, and its AddNewStreams writes
\* the file.
AddNewStreamsBetween(providedVideoID, fault) ==
    /\ pc \in {"load", "mark"}
    /\ run.k >= 1
    /\ call = NoCall
    /\ QueueFileName(providedVideoID) = qname
    /\ LET c == RunAddNewStreams(files[qname], providedVideoID, channel, published, db, fault)
       IN  /\ c.called
           /\ c.out.file # files[qname]
           /\ files' = [files EXCEPT ![qname] = c.out.file]
           /\ call' = [fn |-> "AddNewStreams",
                       args |-> [file |-> files[qname], afterVideoID |-> c.afterVideoID,
                                 useChecker |-> providedVideoID # ""],
                       out |-> c.out]
    /\ UNCHANGED <<channel, published, db, seq, clock, pc, qname, queue, entry, isLastItem,
                   outputFile, tx, imp, result, errAt, run, resume, imported, importers>>

NextB ==
    \/ Next
    \/ \E id \in ProvidedIDs \cup {""}, fault \in AddOutcomes : AddNewStreamsBetween(id, fault)

\* The worker on a channel with a video whose title does not parse.
InitT ==
    /\ channel = UntitledChannel
    /\ files = [qn \in QueueNames |-> NoFile]
    /\ published = 2
    /\ db = EmptyDB
    /\ seq = EmptySeq
    /\ clock = 0
    /\ pc = "idle"
    /\ qname = ""
    /\ queue = <<>>
    /\ entry = NoEntry
    /\ isLastItem = FALSE
    /\ outputFile = NoVideoJSON
    /\ tx = NoTx
    /\ imp = NoImp
    /\ result = "none"
    /\ errAt = ""
    /\ run = NoRun
    /\ resume = NoResume
    /\ imported = [id \in Range(Playlist) |-> NoVideoJSON]
    /\ call = NoCall
    /\ importers = NoImporters

SpecT == InitT /\ [][Next]_vars

\* ------------------------------------------- the queue functions on their own
\* Longest queue passed to a queue function.
MaxLen == 2

\* An entry whose title needs escaping and whose upload date is empty.
OddEntry == [VideoID |-> "v1", VideoTitle |-> <<"\"", "&", "\\u0026">>, UploadDate |-> 0]

Entries == {QueueEntry(DatedChannel, "v2"), QueueEntry(DatedChannel, "v3"), OddEntry}

\* The queues of at most MaxLen entries (an entry may occur twice).
Queues == UNION {[1..n -> Entries] : n \in 0..MaxLen}

\* A database in which exactly the videos of ids have been imported.
DBWith(ids) ==
    [EmptyDB EXCEPT !.videos =
        {[id |-> PosOf(y), youtube_id |-> y, title |-> DatedChannel[y].title,
          upload_date |-> DateToTime(DatedChannel[y].date), last_processed |-> FALSE]
         : y \in ids}]

\* The arguments of the queue operations, and those of AddNewStreams: the
\* queue file, afterVideoID, the n videos the fetcher sees, whether a checker
\* is passed and which videos it reports as processed, and what goes wrong.
QueueInputs == [for : {"queue"}, q : Queues, r : Queues]

AddInputs ==
    [for : {"add"},
     file : {NoFile, TornFile} \cup {SaveQueue(q) : q \in Queues},
     afterVideoID : {"", "v1"},
     n : 2..Len(Playlist),
     useChecker : BOOLEAN,
     processed : SUBSET {"v2", "v3", "v4"},
     fault : AddFaults]

\* The arguments of FilterUnprocessed: the entries, the ids the checker
\* reports as processed, and whether the checker fails.
FilterInputs ==
    [for : {"filter"}, q : Queues, processed : SUBSET {"v1", "v2", "v3"},
     checkerFails : BOOLEAN]

\* The upload dates of the channel's videos, and the empty date.
Dates == {0} \cup {DatedChannel[id].date : id \in Range(Playlist)}

\* The arguments of ShouldUpdateLastProcessed.
DateInputs == [for : {"date"}, videoUploadDate : Dates, dbUploadDate : Dates]

\* Titles: the two of the channel; two parts only; a part that is a year and
\* nothing else, before a tournament part and on its own; a year below and
\* one above the window; a tournament in the second part only; two
\* tournament parts with the years at the ends of the window; no title.
Titles ==
    {TitleChennai, TitleDoha,
     <<"LIVE!", "|", "Day", "4">>,
     <<"LIVE!", "|", "Day", "1", "|", "2026", "|", "WTT", "Doha", "2026">>,
     <<"LIVE!", "|", "Day", "1", "|", " ", "2026">>,
     <<"LIVE!", "|", "Day", "1", "|", "WTT", "Doha", "2019">>,
     <<"LIVE!", "|", "Day", "1", "|", "WTT", "Doha", "2101", "|", "Finals">>,
     <<"LIVE!", "|", "WTT", "Doha", "2026", "|", "Finals">>,
     <<"LIVE!", "|", "Day", "1", "|", "WTT", "Chennai", "2020", "|", "WTT", "Doha", "2100">>,
     <<>>}

TitleInputs == [for : {"title"}, title : Titles]

\* Player strings: one name, with blanks around or inside it; a pair; a pair
\* with blanks and a trailing "/"; one name and a "/"; a "/" alone; nothing.
PlayerStrings ==
    {<<"Zhang">>, <<" ", "Bo">>, <<"Ma", " ", "Long">>,
     <<"Zhang", "/", "Bo">>, <<"Ma", " ", "/", " ", "Xu", "/">>,
     <<"Zhang", " ", "/", " ">>, <<"/">>, <<>>}

\* The player1 and player2 of a match of the JSON file.
MatchInputs == [for : {"match"}, player1 : PlayerStrings, player2 : PlayerStrings]

\* A database in which the video marked (if any) is imported and flagged
\* last_processed.
DBMarked(marked) ==
    IF marked = "" THEN EmptyDB ELSE SetLastProcessed(DBWith({marked}), PosOf(marked))

\* The arguments of the --add_new_streams command: the queue file, the
\* VIDEO_ID argument, the marked video, the n videos the fetcher sees, and
\* what goes wrong.
CmdInputs ==
    [for : {"cmd"},
     file : {NoFile, TornFile, SaveQueue(<<>>), SaveQueue(<<QueueEntry(DatedChannel, "v2")>>)},
     providedVideoID : ProvidedIDs \cup {""},
     marked : {"", "v1", "v2"},
     n : 2..Len(Playlist),
     fault : AddOutcomes]

\* The arguments of every call.
CallInputs ==
    QueueInputs \cup AddInputs \cup FilterInputs \cup DateInputs \cup TitleInputs
        \cup MatchInputs \cup CmdInputs

\* Like Init, with the arguments of one call chosen.
InitQ ==
    /\ channel = DatedChannel
    /\ files = [qn \in QueueNames |-> NoFile]
    /\ published = 2
    /\ db = EmptyDB
    /\ seq = EmptySeq
    /\ clock = 0
    /\ pc = "idle"
    /\ qname = ""
    /\ queue = <<>>
    /\ entry = NoEntry
    /\ isLastItem = FALSE
    /\ outputFile = NoVideoJSON
    /\ tx = NoTx
    /\ imp = NoImp
    /\ result = "none"
    /\ errAt = ""
    /\ run = NoRun
    /\ resume = NoResume
    /\ imported = [id \in Range(Playlist) |-> NoVideoJSON]
    /\ call \in {[fn |-> "", args |-> a, out |-> [none |-> TRUE]]
                  : a \in CallInputs}
    /\ importers = NoImporters

\* A function is applied to the chosen arguments; nothing else changes.
Apply(for, fn, out) ==
    /\ call.fn = ""
    /\ call.args.for = for
    /\ call' = [call EXCEPT !.fn = fn, !.out = out]
    /\ UNCHANGED <<channel, files, published, db, seq, clock, pc, qname, queue, entry,
                   isLastItem, outputFile, tx, imp, result, errAt, run, resume, imported, importers>>

\* SaveQueue(path, q), then LoadQueue(path).
CallSaveLoad ==
    Apply("queue", "SaveLoad",
          [queue |-> LoadQueue(SaveQueue(call.args.q)),
           err |-> LoadError(SaveQueue(call.args.q))])

CallPrependToQueue ==
    Apply("queue", "PrependToQueue",
          [queue |-> PrependToQueue(call.args.q, call.args.r)])

CallRemoveLastEntry ==
    Apply("queue", "RemoveLastEntry", RemoveLastEntry(call.args.q))

CallTopEntry ==
    Apply("queue", "TopEntry", TopEntry(call.args.q))

CallAddNewStreams ==
    Apply("add", "AddNewStreams",
          AddNewStreams(call.args.file, call.args.afterVideoID, DatedChannel, call.args.n,
                        call.args.useChecker, DBWith(call.args.processed), call.args.fault))

CallFilterUnprocessed ==
    Apply("filter", "FilterUnprocessed",
          FilterUnprocessedWithChecker(call.args.q, call.args.processed,
                                       call.args.checkerFails))

CallShouldUpdateLastProcessed ==
    Apply("date", "ShouldUpdateLastProcessed",
          [update |-> ShouldUpdateLastProcessed(call.args.videoUploadDate,
                                                call.args.dbUploadDate)])

CallParseTournamentFromTitle ==
    Apply("title", "parseTournamentFromTitle", parseTournamentFromTitle(call.args.title))

\* The loop body for one match, on empty tables: the two teams and the
\* tables with the match.
CallInsertMatch ==
    Apply("match", "InsertMatch",
          [teamA |-> parsePlayerName(call.args.player1),
           teamB |-> parsePlayerName(call.args.player2),
           t |-> InsertMatch(EmptyDB, EmptySeq,
                             [timestamp |-> 0, player1 |-> call.args.player1,
                              player2 |-> call.args.player2], 1, 0, 1).t])

CallRunAddNewStreams ==
    Apply("cmd", "runMatchFinder",
          RunAddNewStreams(call.args.file, call.args.providedVideoID, DatedChannel,
                           call.args.n, DBMarked(call.args.marked), call.args.fault))

NextQ ==
    \/ CallSaveLoad
    \/ CallPrependToQueue
    \/ CallRemoveLastEntry
    \/ CallTopEntry
    \/ CallAddNewStreams
    \/ CallFilterUnprocessed
    \/ CallShouldUpdateLastProcessed
    \/ CallParseTournamentFromTitle
    \/ CallInsertMatch
    \/ CallRunAddNewStreams

SpecQ == InitQ /\ [][NextQ]_vars

\* ---------------------------------------------------- the importer on its own
\* The JSON files handed to ImportMatchesFromJSON outside a queue run: v2
\* under two titles, two upload dates and two match lists, and v3.
Descriptors ==
    {[VideoID |-> "v2", VideoTitle |-> t, UploadDate |-> d, Matches |-> m]
       : t \in {TitleChennai, TitleDoha}, d \in {2, 3}, m \in {<<Singles>>, <<Doubles>>}}
    \cup {VideoJSON(DatedChannel, "v3", <<Singles, Doubles>>)}

InitI ==
    /\ channel = DatedChannel
    /\ files = [qn \in QueueNames |-> NoFile]
    /\ published = 2
    /\ db = EmptyDB
    /\ seq = EmptySeq
    /\ clock = 0
    /\ pc = "idle"
    /\ qname = ""
    /\ queue = <<>>
    /\ entry = NoEntry
    /\ isLastItem = FALSE
    /\ outputFile = NoVideoJSON
    /\ tx = NoTx
    /\ imp = NoImp
    /\ result = "none"
    /\ errAt = ""
    /\ run = NoRun
    /\ resume = NoResume
    /\ imported = [id \in Range(Playlist) |-> NoVideoJSON]
    /\ call = NoCall
    /\ importers = NoImporters

\* ImportMatchesFromJSON is called on a JSON file.
ImportFile ==
    /\ pc = "idle"
    /\ \E vj \in Descriptors : outputFile' = vj
    /\ pc' = "import"
    /\ UNCHANGED <<channel, files, published, db, seq, clock, qname, queue, entry, isLastItem,
                   tx, imp, result, errAt, run, resume, imported, call, importers>>

\* ImportMatchesFromJSON has returned nil.
ImportReturn ==
    /\ pc = "save"
    /\ pc' = "idle"
    /\ outputFile' = NoVideoJSON
    /\ run' = NoRun
    /\ UNCHANGED <<channel, files, published, db, seq, clock, qname, queue, entry, isLastItem,
                   tx, imp, result, errAt, resume, imported, call, importers>>

NextI ==
    \/ ImportFile
    \/ ImportBegin
    \/ TxTournament
    \/ TxVideo
    \/ TxMatch
    \/ TxMark
    \/ TxCommit
    \/ TxFail
    \/ ImportReturn
    \/ Exit

SpecI == InitI /\ [][NextI]_vars

\* JSON files that hold an array: no video, two videos (newest first as the
\* producer writes them, or oldest first), two videos one of which has a
\* title without tournament and year, and one video whose title spells its
\* tournament in other letter case.
JSONArrays ==
    LET d2 == VideoJSON(DatedChannel, "v2", <<Singles>>)
        d3 == VideoJSON(DatedChannel, "v3", <<Doubles>>)
        u2 == [d2 EXCEPT !.VideoTitle = TitleFinals]
        u3 == [d3 EXCEPT !.VideoTitle = TitleFinals]
        l3 == [d3 EXCEPT !.VideoTitle = TitleDohaLower]
    IN  {JSONArray(a) : a \in {<<>>, <<d3, d2>>, <<d2, d3>>, <<u3, d2>>, <<d3, u2>>, <<l3>>}}

\* ImportMatchesFromJSON is called on a JSON file that holds an array.
ImportArray ==
    /\ pc = "idle"
    /\ \E file \in JSONArrays : outputFile' = file
    /\ pc' = "import"
    /\ UNCHANGED <<channel, files, published, db, seq, clock, qname, queue, entry, isLastItem,
                   tx, imp, result, errAt, run, resume, imported, call, importers>>

NextA ==
    \/ NextI
    \/ ImportArray

\* The importer on single objects and on arrays.
SpecA == InitI /\ [][NextA]_vars

\* --------------------------------------------------- two importers at once
\* The variables of the worker, which two importers started on their own do
\* not touch.
workerVars ==
    <<channel, files, published, pc, qname, queue, entry, isLastItem, outputFile, tx, imp,
      result, errAt, run, resume, imported, call>>

Other(p) == 3 - p

\* The positions of an importer between conn.Begin and the end of its
\* transaction.
OpenSteps ==
    {"tournament", "tournament_insert", "video", "video_insert", "match", "player",
     "player_insert", "mark", "commit"}

InTx(p) == importers[p].pc \in OpenSteps

\* The columns of the unique constraints: tournaments (name, year), players
\* (name) and videos (youtube_id); matches have none but their id.
KeyOf(table, r) ==
    CASE table = "tournaments" -> <<r.name, r.year>>
      [] table = "players" -> <<r.name>>
      [] table = "videos" -> <<r.youtube_id>>
      [] OTHER -> <<r.id>>

\* Variant of HasKey for tables without unique constraints.
HasKeyNever(rows, table, key) == FALSE

\* rows holds a row with this key.
HasKey(rows, table, key) == \E r \in rows : KeyOf(table, r) = key

\* An INSERT of a key that a committed row has violates the unique
\* constraint.
Violates(table, key) == HasKey(db[table], table, key)

\* An INSERT of a key that a row of the other, still open transaction has
\* waits until that transaction has ended.
Waits(p, table, key) ==
    /\ InTx(Other(p))
    /\ HasKey(importers[Other(p)].t[table] \ db[table], table, key)

\* What a statement of an open transaction sees after another transaction
\* has committed: the rows that commit removed or replaced are gone, the
\* rows it added are there (read committed).
Refresh(view, old, new) ==
    [tb \in DOMAIN view |-> (view[tb] \ (old[tb] \ new[tb])) \cup (new[tb] \ old[tb])]

\* The JSON files of the two importers: v2 and v4 under one tournament with
\* the same two players, v2 under another tournament, and v3 under that
\* other tournament with these two players and two more.
RaceFiles ==
    LET d2 == VideoJSON(DatedChannel, "v2", <<Singles>>)
    IN  {d2, [d2 EXCEPT !.VideoTitle = TitleDoha], VideoJSON(DatedChannel, "v4", <<Singles>>),
         VideoJSON(DatedChannel, "v3", <<Doubles>>)}

\* The <<name, side>> pairs of a match: teamA with side A, then teamB with
\* side B.
TeamsOf(mj) ==
    [i \in 1..Len(parsePlayerName(mj.player1)) |-> <<parsePlayerName(mj.player1)[i], "A">>]
    \o [i \in 1..Len(parsePlayerName(mj.player2)) |-> <<parsePlayerName(mj.player2)[i], "B">>]

\* A statement of importer p has failed: the import returns the error and
\* the deferred Rollback discards what the transaction wrote.
Failed(p, why) ==
    importers' = [importers EXCEPT ![p] = [@ EXCEPT !.pc = "failed", !.t = EmptyDB,
                                                     !.result = "err", !.err = why]]

\* ImportMatchesFromJSON is called on a JSON file: title parsed, conn.Begin.
ConnBegin(p) ==
    /\ importers[p].pc = "idle"
    /\ \E vj \in RaceFiles :
          IF parseTournamentFromTitle(vj.VideoTitle).ok
          THEN importers' = [importers EXCEPT ![p] =
                                [NoImporter EXCEPT !.pc = "tournament", !.file = vj, !.t = db]]
          ELSE importers' = [importers EXCEPT ![p] =
                                [NoImporter EXCEPT !.pc = "failed", !.file = vj,
                                                   !.result = "err", !.err = "title"]]
    /\ UNCHANGED <<db, seq, clock, workerVars>>

\* SELECT id FROM tournaments WHERE name=$1 AND year=$2
LookupTournament(p) ==
    /\ importers[p].pc = "tournament"
    /\ LET me == importers[p]
           tour == parseTournamentFromTitle(me.file.VideoTitle)
           found == SelectTournament(me.t, tour.name, tour.year)
       IN  importers' = [importers EXCEPT ![p] =
              IF found # {}
              THEN [me EXCEPT !.pc = "video", !.tournamentID = ScanId(found)]
              ELSE [me EXCEPT !.pc = "tournament_insert",
                              !.missed = @ \cup {<<"tournaments", <<tour.name, tour.year>>>>}]]
    /\ UNCHANGED <<db, seq, clock, workerVars>>

\* INSERT INTO tournaments (name, year) VALUES ($1, $2) RETURNING id
InsertTournament(p) ==
    /\ importers[p].pc = "tournament_insert"
    /\ LET me == importers[p]
           tour == parseTournamentFromTitle(me.file.VideoTitle)
           key == <<tour.name, tour.year>>
           id == seq.tournaments + 1
       IN  /\ ~Waits(p, "tournaments", key)
           /\ seq' = [seq EXCEPT !.tournaments = id]
           /\ IF Violates("tournaments", key)
              THEN Failed(p, "unique")
              ELSE importers' = [importers EXCEPT ![p] =
                      [me EXCEPT !.pc = "video", !.tournamentID = id,
                                 !.t.tournaments = @ \cup {[id |-> id, name |-> tour.name,
                                                            year |-> tour.year]},
                                 !.drew = @ \cup {<<"tournaments", key, id>>}]]
    /\ UNCHANGED <<db, clock, workerVars>>

\* The upload date is parsed (current time if malformed), then
\* SELECT id FROM videos WHERE youtube_id=$1; an existing video is updated
\* and its matches and their participants are deleted.
LookupVideo(p) ==
    /\ importers[p].pc = "video"
    /\ LET me == importers[p]
           parsed == parseUploadDate(me.file.UploadDate)
           uploadDate == IF parsed.ok THEN parsed.t ELSE Now
           found == SelectVideo(me.t, me.file.VideoID)
       IN  /\ parsed.ok \/ clock < MaxClock
           /\ clock' = IF parsed.ok THEN clock ELSE clock + 1
           /\ importers' = [importers EXCEPT ![p] =
                 IF found # {}
                 THEN [me EXCEPT !.pc = "match", !.uploadDate = uploadDate,
                                 !.videoID = ScanId(found), !.m = 1,
                                 !.t = DeleteMatches(DeleteParticipants(
                                          UpdateVideo(me.t, ScanId(found), me.file.VideoTitle,
                                                      uploadDate),
                                          ScanId(found)), ScanId(found))]
                 ELSE [me EXCEPT !.pc = "video_insert", !.uploadDate = uploadDate,
                                 !.missed = @ \cup {<<"videos", <<me.file.VideoID>>>>}]]
    /\ UNCHANGED <<db, seq, workerVars>>

\* INSERT INTO videos (youtube_id, title, upload_date) ... RETURNING id
InsertVideo(p) ==
    /\ importers[p].pc = "video_insert"
    /\ LET me == importers[p]
           key == <<me.file.VideoID>>
           id == seq.videos + 1
       IN  /\ ~Waits(p, "videos", key)
           /\ seq' = [seq EXCEPT !.videos = id]
           /\ IF Violates("videos", key)
              THEN Failed(p, "unique")
              ELSE importers' = [importers EXCEPT ![p] =
                      [me EXCEPT !.pc = "match", !.videoID = id, !.m = 1,
                                 !.t.videos = @ \cup
                                     {[id |-> id, youtube_id |-> me.file.VideoID,
                                       title |-> me.file.VideoTitle,
                                       upload_date |-> me.uploadDate,
                                       last_processed |-> FALSE]},
                                 !.drew = @ \cup {<<"videos", key, id>>}]]
    /\ UNCHANGED <<db, clock, workerVars>>

\* The head of the loop over videoJSON.Matches: INSERT INTO matches ...
\* RETURNING id for the next match, or the exit of the loop.
InsertMatchRow(p) ==
    /\ importers[p].pc = "match"
    /\ LET me == importers[p]
           id == seq.matches + 1
       IN  IF me.m <= Len(me.file.Matches)
           THEN LET mj == me.file.Matches[me.m]
                IN  /\ seq' = [seq EXCEPT !.matches = id]
                    /\ importers' = [importers EXCEPT ![p] =
                          [me EXCEPT !.pc = "player", !.matchID = id, !.team = TeamsOf(mj),
                                     !.t.matches = @ \cup
                                         {[id |-> id, tournament_id |-> me.tournamentID,
                                           match_timestamp |->
                                               MatchTime(me.uploadDate, mj.timestamp),
                                           is_doubles |-> IsDoubles(parsePlayerName(mj.player1),
                                                                    parsePlayerName(mj.player2)),
                                           video_id |-> me.videoID]},
                                     !.drew = @ \cup {<<"matches", <<id>>, id>>}]]
           ELSE /\ seq' = seq
                /\ importers' = [importers EXCEPT ![p] = [me EXCEPT !.pc = "mark"]]
    /\ UNCHANGED <<db, clock, workerVars>>

\* The head of the teamA / teamB loops: SELECT id FROM players WHERE name=$1
\* and, for a player found, INSERT INTO match_participants; after the last
\* name, the next match.
LookupPlayer(p) ==
    /\ importers[p].pc = "player"
    /\ LET me == importers[p]
       IN  importers' = [importers EXCEPT ![p] =
              IF me.team = <<>>
              THEN [me EXCEPT !.pc = "match", !.m = @ + 1]
              ELSE LET name == Head(me.team)[1]
                       found == SelectPlayer(me.t, name)
                   IN  IF found # {}
                       THEN [me EXCEPT !.team = Tail(@),
                                       !.t.match_participants = @ \cup
                                           {[match_id |-> me.matchID,
                                             player_id |-> ScanId(found),
                                             side |-> Head(me.team)[2]]}]
                       ELSE [me EXCEPT !.pc = "player_insert",
                                       !.missed = @ \cup {<<"players", <<name>>>>}]]
    /\ UNCHANGED <<db, seq, clock, workerVars>>

\* INSERT INTO players (name) VALUES ($1) RETURNING id, then
\* INSERT INTO match_participants.
InsertPlayer(p) ==
    /\ importers[p].pc = "player_insert"
    /\ LET me == importers[p]
           name == Head(me.team)[1]
           key == <<name>>
           id == seq.players + 1
       IN  /\ ~Waits(p, "players", key)
           /\ seq' = [seq EXCEPT !.players = id]
           /\ IF Violates("players", key)
              THEN Failed(p, "unique")
              ELSE importers' = [importers EXCEPT ![p] =
                      [me EXCEPT !.pc = "player", !.team = Tail(@),
                                 !.t.players = @ \cup {[id |-> id, name |-> name]},
                                 !.t.match_participants = @ \cup
                                     {[match_id |-> me.matchID, player_id |-> id,
                                       side |-> Head(me.team)[2]]},
                                 !.drew = @ \cup {<<"players", key, id>>}]]
    /\ UNCHANGED <<db, clock, workerVars>>

\* The last_processed block; the video of a single object has index 0.
SetNewest(p) ==
    /\ importers[p].pc = "mark"
    /\ importers' = [importers EXCEPT ![p] =
          [@ EXCEPT !.pc = "commit", !.t = MarkNewest(@, 1, importers[p].videoID)]]
    /\ UNCHANGED <<db, seq, clock, workerVars>>

\* tx.Commit: what the transaction wrote becomes visible to the other
\* importer; the import returns nil.
CommitOf(p) ==
    /\ importers[p].pc = "commit"
    /\ db' = Commit(db, importers[p].t)
    /\ importers' = [q \in Importers |->
          IF q = p THEN [importers[p] EXCEPT !.pc = "done", !.t = EmptyDB, !.result = "ok"]
          ELSE IF InTx(q)
               THEN [importers[q] EXCEPT !.t = Refresh(@, db, importers[p].t)]
               ELSE importers[q]]
    /\ UNCHANGED <<seq, clock, workerVars>>

\* A statement or the commit of importer p fails for another reason (the
\* connection, a deadlock with the other importer).
FailOf(p) ==
    /\ InTx(p)
    /\ Failed(p, "statement")
    /\ UNCHANGED <<db, seq, clock, workerVars>>

NextR ==
    \E p \in Importers :
        \/ ConnBegin(p)
        \/ LookupTournament(p)
        \/ InsertTournament(p)
        \/ LookupVideo(p)
        \/ InsertVideo(p)
        \/ InsertMatchRow(p)
        \/ LookupPlayer(p)
        \/ InsertPlayer(p)
        \/ SetNewest(p)
        \/ CommitOf(p)
        \/ FailOf(p)

\* Two importers, each importing one JSON file, on an empty database.
SpecR == InitI /\ [][NextR]_vars

\* The worker and a second process that adds streams.
SpecC == InitI /\ [][NextC]_vars

\* The worker and a second process that adds streams between iterations.
SpecB == InitI /\ [][NextB]_vars

\* The steps of a drain in which the container run, the import and SaveQueue
\* succeed and the process is not killed; UpdateLastProcessed may fail.
DrainOK ==
    \/ LoadStep
    \/ RunDocker /\ pc' = "import"
    \/ ImportBegin /\ pc' = "tx_tournament"
    \/ TxTournament
    \/ TxVideo
    \/ TxMatch
    \/ TxMark
    \/ TxCommit
    \/ SaveStep /\ pc' \in {"load", "mark"}
    \/ MarkStep
    \/ Exit

\* Queues are filled by --add_new_streams runs that succeed, and a drain
\* starts on a database without matches, so that the bound on the matches
\* sequence does not stop it.
NextL ==
    \/ Publish
    \/ \E id \in ProvidedIDs \cup {""} : AddNewStreamsCmd(id, "ok")
    \/ \E qn \in QueueNames : StartProcess(qn) /\ seq.matches = 0
    \/ DrainOK

\* The worker without failures of container, import and save; a process
\* that is running takes its next step.
SpecL == InitI /\ [][NextL]_vars /\ WF_vars(DrainOK)

TypeOK ==
    /\ pc \in {"idle", "returned"} \cup RunSteps
    /\ published \in 2..Len(Playlist)
    /\ clock \in 0..MaxClock
    /\ result \in {"none", "ok", "err", "crash"}

\* ------------------------------------------------- observations for claims
\* The entries the run in progress (or just ended) has not removed.
Remainder == SubSeq(run.q0, 1, Len(run.q0) - run.k)

\* The steps in which entry is being imported.
ImportSteps == {"docker", "import"} \cup TxSteps

\* The videos row of a youtube id (a set: empty, or one row).
VideoRows(d, youtubeID) == {v \in d.videos : v.youtube_id = youtubeID}

\* The matches rows of a youtube id.
MatchRows(d, youtubeID) ==
    {m \in d.matches : \E v \in VideoRows(d, youtubeID) : m.video_id = v.id}

\* The match_participants rows of a match.
ParticipantRows(d, matchID) == {p \in d.match_participants : p.match_id = matchID}

\* A match without its ids: tournament (name, year), time, kind and the
\* player names of each side.
MatchContent(d, m) ==
    [tournament |-> {<<t.name, t.year>> : t \in {x \in d.tournaments : x.id = m.tournament_id}},
     match_timestamp |-> m.match_timestamp,
     is_doubles |-> m.is_doubles,
     sides |-> UNION {{<<pl.name, p.side>> : pl \in {x \in d.players : x.id = p.player_id}}
                      : p \in ParticipantRows(d, m.id)}]

ContentOf(d, youtubeID) == {MatchContent(d, m) : m \in MatchRows(d, youtubeID)}

\* Number of match_participants rows of a youtube id.
ParticipantCount(d, youtubeID) ==
    Cardinality({p \in d.match_participants :
                    \E m \in MatchRows(d, youtubeID) : p.match_id = m.id})

RECURSIVE TeamSizes(_)
TeamSizes(matches) ==
    IF matches = <<>> THEN 0
    ELSE Len(parsePlayerName(Head(matches).player1))
         + Len(parsePlayerName(Head(matches).player2)) + TeamSizes(Tail(matches))

\* What one import of descriptor vj at upload time t puts into the tables.
OneImportContent(vj, t) ==
    {[tournament |-> {<<parseTournamentFromTitle(vj.VideoTitle).name,
                        parseTournamentFromTitle(vj.VideoTitle).year>>},
      match_timestamp |-> t + vj.Matches[i].timestamp,
      is_doubles |-> Len(parsePlayerName(vj.Matches[i].player1)) > 1
                     \/ Len(parsePlayerName(vj.Matches[i].player2)) > 1,
      sides |-> {<<n, "A">> : n \in Range(parsePlayerName(vj.Matches[i].player1))}
                \cup {<<n, "B">> : n \in Range(parsePlayerName(vj.Matches[i].player2))}]
     : i \in 1..Len(vj.Matches)}

\* The tables hold descriptor vj exactly once.
HeldOnce(d, vj) ==
    /\ Cardinality(VideoRows(d, vj.VideoID)) = 1
    /\ \A v \in VideoRows(d, vj.VideoID) :
          /\ v.title = vj.VideoTitle
          /\ parseUploadDate(vj.UploadDate).ok => v.upload_date = DateToTime(vj.UploadDate)
          /\ ContentOf(d, vj.VideoID) = OneImportContent(vj, v.upload_date)
    /\ Cardinality(MatchRows(d, vj.VideoID)) = Len(vj.Matches)
    /\ ParticipantCount(d, vj.VideoID) = TeamSizes(vj.Matches)

\* The youtube ids of the rows flagged last_processed.
FlaggedIDs(d) == {v.youtube_id : v \in Flagged(d)}

\* The upload dates (YYYYMMDD) of the rows flagged last_processed.
MarkedDates(d) == {FormatDate(v.upload_date) : v \in Flagged(d)}

\* A file that exists and does not hold a complete document.
Malformed(f) == f.exists /\ ~f.whole

\* The entries of queue q that are not among the processed ids.
Unprocessed(q, processed) == SelectSeq(q, LAMBDA e : e.VideoID \notin processed)

\* The AddNewStreams call on record: the queue it found, the cutoff the
\* claims name, what the fetcher has for that cutoff and what of it is kept.
AddExisting == LoadQueue(call.args.file)

AddCutoff ==
    IF Len(AddExisting) > 0 THEN AddExisting[1].VideoID ELSE call.args.afterVideoID

AddFetched == FetchStreamsAfter(DatedChannel, AddCutoff, call.args.n)

AddKept ==
    IF call.args.useChecker THEN Unprocessed(AddFetched, call.args.processed)
    ELSE AddFetched

\* The call got as far as the fetcher, and the fetcher answered.
AddFetchedOK ==
    /\ ~Malformed(call.args.file)
    /\ AddCutoff # ""
    /\ call.args.fault # "fetch"

\* The k-th smallest element of a set of numbers.
KthOf(S, k) == CHOOSE i \in S : Cardinality({j \in S : j < i}) = k - 1

\* The elements of sequence s at the indices in S, in their order in s.
Pick(s, S) == [k \in 1..Cardinality(S) |-> s[KthOf(S, k)]]

\* The whitespace-delimited words of a title segment.
WordsOf(segment) == Fields(TrimSpace(segment))

\* The last word of a segment is an integer of the year window.
EndsInYear(segment) ==
    /\ WordsOf(segment) # <<>>
    /\ Atoi(Last(WordsOf(segment))) \in YearMin..YearMax

\* The tournament a segment names: the words before the year, lower-cased,
\* and the year.
TournamentOf(segment) ==
    [ok |-> TRUE,
     name |-> [k \in 1..(Len(WordsOf(segment)) - 1) |-> ToLower(WordsOf(segment)[k])],
     year |-> Atoi(Last(WordsOf(segment)))]

\* The names of a player string: its non-empty trimmed parts if it holds a
\* "/", else the trimmed string.
NamesOf(name) ==
    IF \E i \in 1..Len(name) : name[i] = "/"
    THEN LET parts == Split(name, "/")
             keep == {i \in 1..Len(parts) : TrimSpace(parts[i]) # <<>>}
         IN  [k \in 1..Cardinality(keep) |-> TrimSpace(parts[KthOf(keep, k)])]
    ELSE <<TrimSpace(name)>>

\* No video id occurs twice in queue q.
NoDuplicateID(q) ==
    \A i, j \in 1..Len(q) : q[i].VideoID = q[j].VideoID => i = j

\* --------------------------------------------------------------- claims
\* C1: during processQueueVideos, after k imports have succeeded and their
\* saves have returned, the queue file holds exactly the first n-k entries of
\* the queue the run started with, also after a crash at such a point (one
\* that does not interrupt a SaveQueue call); the entry in work is the last
\* of them, and the next run on that file starts from the same entries and
\* picks the same last entry.
C1_PrefixOnDisk ==
    /\ (run.started /\ ~(pc = "returned" /\ errAt = "write")) =>
          /\ ~LoadError(files[run.qn])
          /\ LoadQueue(files[run.qn]) = Remainder
          /\ pc \in ImportSteps \cup {"save"} => entry = run.q0[Len(run.q0) - run.k]
          /\ run.prev.qn # "" => run.q0 = run.prev.rest
    /\ (resume.qn # "" /\ resume.at # "write") =>
          /\ ~LoadError(files[resume.qn])
          /\ LoadQueue(files[resume.qn]) = resume.rest

\* A run that crashed after one of three imports is resumed on two entries.
C1_Witness ==
    /\ pc = "docker"
    /\ run.prev.outcome = "crash" /\ run.prev.k = 1 /\ Len(run.prev.rest) = 2
    /\ run.k = 0 /\ Len(run.q0) = 2
    /\ entry = run.prev.rest[2]

\* C2: when the container run or the import fails, processQueueVideos
\* returns an error and the queue file is as it was when the iteration
\* loaded it; the next run picks the same entry first.
C2_FailureKeepsQueue ==
    /\ [][(pc \in ImportSteps /\ pc' = "returned" /\ result' = "err")
            => /\ files' = files
               /\ LoadQueue(files'[qname]) = queue
               /\ Last(LoadQueue(files'[qname])) = entry]_vars
    /\ [](pc = "docker" /\ run.k = 0 /\ run.prev.outcome = "err"
            /\ run.prev.at = "import"
          => entry = run.prev.entry)

\* A run retries the video whose import failed in the run before.
C2_Witness ==
    /\ pc = "docker" /\ run.k = 0
    /\ run.prev.outcome = "err" /\ run.prev.at = "import"
    /\ entry = run.prev.entry
    /\ Len(queue) >= 2

\* C3 as stated: every entry of the batch whose import has not committed in
\* this run is still in the queue file, in every state including those after
\* a crash at any step.
C3_NoWorkLost ==
    run.started =>
        \A i \in 1..Len(run.q0) :
            run.q0[i].VideoID \notin run.done =>
                run.q0[i] \in Range(LoadQueue(files[run.qn]))

\* C4 as stated: after a crash or a failed save between the commit of a
\* video's import and the save of the shortened queue, the next run imports
\* the same video again, and then the tables hold that video exactly once.
C4_ReimportAfterLostSave ==
    (run.k = 0 /\ run.prev.at \in {"save", "write"})
        => /\ ~(pc = "returned" /\ result = "err" /\ errAt = "load")
           /\ pc \in ImportSteps \cup {"save"} => entry = run.prev.entry
           /\ pc = "save" => HeldOnce(db, outputFile)

\* C5 as stated: the upload date of the marked video never decreases.
C5_WatermarkNeverBackward ==
    [][\A before \in MarkedDates(db), after \in MarkedDates(db') : after >= before]_vars

\* C6 as stated: when a run has drained a non-empty queue, the marked video
\* is the queue's first entry if its date is not older than the date marked
\* before the run (or nothing was marked), and else the video marked before.
C6_WatermarkAfterDrain ==
    (pc = "returned" /\ result = "ok" /\ Len(run.q0) > 0 /\ run.k = Len(run.q0))
        => GetLastProcessedVideoID(db) =
              (IF run.wmDate0 = 0 \/ run.q0[1].UploadDate >= run.wmDate0
               THEN run.q0[1].VideoID ELSE run.wm0)

\* C7 as stated: the marked video changes only in the iteration that
\* processes the only (top) entry left in the queue.
C7_WatermarkOnlyOnTop ==
    [][FlaggedIDs(db') # FlaggedIDs(db) => isLastItem]_vars

\* C8: in every committed state at most one video is flagged last_processed.
C8_AtMostOneFlag == Cardinality(Flagged(db)) <= 1

\* The flag has moved to the second of two imported videos.
C8_Witness ==
    /\ Cardinality(db.videos) >= 2
    /\ \E v \in db.videos : v.last_processed /\ v.id = 2

\* Importing the descriptor that was imported last for its video leaves the
\* video row, its matches and participants, and the tournaments and players
\* as they were.
SameAfterReimport(d, e, vj) ==
    /\ {[v EXCEPT !.last_processed = FALSE] : v \in VideoRows(e, vj.VideoID)}
         = {[v EXCEPT !.last_processed = FALSE] : v \in VideoRows(d, vj.VideoID)}
    /\ ContentOf(e, vj.VideoID) = ContentOf(d, vj.VideoID)
    /\ Cardinality(MatchRows(e, vj.VideoID)) = Cardinality(MatchRows(d, vj.VideoID))
    /\ ParticipantCount(e, vj.VideoID) = ParticipantCount(d, vj.VideoID)
    /\ e.tournaments = d.tournaments
    /\ e.players = d.players

\* C9 as stated: a second import of the same descriptor changes nothing.
C9_ImportIdempotent ==
    [][(pc = "tx_commit" /\ pc' = "save" /\ imported[outputFile.VideoID] = outputFile)
          => SameAfterReimport(db, db', outputFile)]_vars

\* C9 amended: a second import of the same descriptor changes nothing if the
\* descriptor's upload_date is well-formed.
C9_ImportIdempotentDated ==
    [][(pc = "tx_commit" /\ pc' = "save" /\ imported[outputFile.VideoID] = outputFile
          /\ parseUploadDate(outputFile.UploadDate).ok)
          => SameAfterReimport(db, db', outputFile)]_vars

\* A descriptor with a doubles match has been imported a second time.
C9_Witness ==
    /\ pc = "save"
    /\ run.again
    /\ imported[outputFile.VideoID] = outputFile
    /\ parseUploadDate(outputFile.UploadDate).ok
    /\ outputFile.Matches = <<Doubles>>
    /\ seq.matches = 2 /\ seq.videos = 1

\* C10: a failure inside a video's transaction leaves the committed tables
\* exactly as they were before the import began: no step of the transaction
\* but its successful commit changes them.
C10_FailedImportLeavesNothing ==
    [][(pc \in TxSteps /\ ~(pc = "tx_commit" /\ pc' \in {"save", "import"})) => db' = db]_vars

\* The commit of a re-import failed after the transaction had replaced the
\* video's matches; the old matches are still there.
C10_Witness ==
    /\ pc = "returned" /\ result = "err" /\ errAt = "tx_commit"
    /\ VideoRows(db, entry.VideoID) # {}
    /\ MatchRows(db, entry.VideoID) # {}

\* C11: after a committed re-import of a video there is one row for it, with
\* the same id and the new title and upload date; its matches are those of
\* the new payload and none of the old rows; the matches and participants of
\* every other video are as before.
C11_ReimportReplaces ==
    [][(pc = "tx_commit" /\ pc' = "save" /\ VideoRows(db, outputFile.VideoID) # {})
          => LET vid == outputFile.VideoID
             IN  /\ Cardinality(VideoRows(db', vid)) = 1
                 /\ {v.id : v \in VideoRows(db', vid)} = {v.id : v \in VideoRows(db, vid)}
                 /\ \A v \in VideoRows(db', vid) :
                       /\ v.title = outputFile.VideoTitle
                       /\ parseUploadDate(outputFile.UploadDate).ok
                             => v.upload_date = DateToTime(outputFile.UploadDate)
                       /\ ContentOf(db', vid) = OneImportContent(outputFile, v.upload_date)
                 /\ Cardinality(MatchRows(db', vid)) = Len(outputFile.Matches)
                 /\ MatchRows(db', vid) \cap MatchRows(db, vid) = {}
                 /\ ParticipantCount(db', vid) = TeamSizes(outputFile.Matches)
                 /\ \A p \in db'.match_participants :
                       \E m \in db'.matches : m.id = p.match_id
                 /\ \A o \in Range(Playlist) \ {vid} :
                       /\ MatchRows(db', o) = MatchRows(db, o)
                       /\ \A m \in MatchRows(db, o) :
                             ParticipantRows(db', m.id) = ParticipantRows(db, m.id)]_vars

\* v2 has been imported again under another title, date and match list while
\* v3 holds two matches.
C11_Witness ==
    /\ pc = "save"
    /\ run.before = [VideoID |-> "v2", VideoTitle |-> TitleChennai, UploadDate |-> 2,
                     Matches |-> <<Singles>>]
    /\ outputFile = [VideoID |-> "v2", VideoTitle |-> TitleDoha, UploadDate |-> 3,
                     Matches |-> <<Doubles>>]
    /\ Cardinality(MatchRows(db, "v3")) = 2
    /\ Cardinality(MatchRows(db, "v2")) = 1

\* C12 as stated: a process stopped during SaveQueue leaves a file from
\* which LoadQueue returns the complete previous or the complete new queue:
\* a step that ends in a crash leaves every queue file as it was or whole.
C12_SaveQueueAtomic ==
    [][(pc' = "returned" /\ result' = "crash")
          => \A qn \in QueueNames :
                files'[qn] = files[qn] \/ (files'[qn].exists /\ ~Malformed(files'[qn]))]_vars

\* C13: processQueueVideos works oldest-first: the entry in work is the last
\* of the freshly loaded queue, every entry below it has been imported and
\* removed from the file, and no entry above it has been imported.
C13_OldestFirst ==
    (run.started /\ pc \in ImportSteps) =>
        LET i == Len(run.q0) - run.k
        IN  /\ queue = LoadQueue(files[run.qn])
            /\ entry = Last(queue)
            /\ entry = run.q0[i]
            /\ \A j \in (i + 1)..Len(run.q0) :
                  /\ run.q0[j].VideoID \in run.done
                  /\ run.q0[j] \notin Range(LoadQueue(files[run.qn]))
            /\ \A j \in 1..(i - 1) : run.q0[j].VideoID \notin run.done

\* The newest of three entries is in work after the two older ones.
C13_Witness ==
    /\ pc = "docker" /\ Len(run.q0) = 3 /\ run.k = 2
    /\ entry = run.q0[1]
    /\ run.done = {run.q0[2].VideoID, run.q0[3].VideoID}

\* C14 as stated: AddNewStreams calls the fetcher exactly once, with the top
\* entry's id if the queue is non-empty and with afterVideoID otherwise.
C14_FetchOnceWithCutoff ==
    call.fn = "AddNewStreams" => call.out.fetches = <<AddCutoff>>

\* C14 amended: that holds when the queue file parses and the cutoff is not
\* empty; otherwise AddNewStreams fails without calling the fetcher.
C14_FetchOnceIfCutoff ==
    call.fn = "AddNewStreams" =>
        IF ~Malformed(call.args.file) /\ AddCutoff # ""
        THEN call.out.fetches = <<AddCutoff>>
        ELSE call.out.fetches = <<>> /\ call.out.err

\* The afterVideoID argument is ignored for a queue with entries.
C14_Witness ==
    /\ call.fn = "AddNewStreams"
    /\ Len(AddExisting) = 2
    /\ call.args.afterVideoID = "v1"
    /\ AddExisting[1].VideoID = "v3"
    /\ call.out.fetches = <<"v3">>

\* C15: when an entry remains after filtering, a successful AddNewStreams
\* leaves the kept fetched entries, in fetched order, followed by the
\* previous queue, and returns the number of kept entries; without a checker
\* every fetched entry is kept.
C15_PrependsKept ==
    (call.fn = "AddNewStreams" /\ AddFetchedOK /\ Len(AddKept) > 0
        /\ ~call.out.err /\ ~call.out.killed)
        => /\ ~LoadError(call.out.file)
           /\ LoadQueue(call.out.file) = AddKept \o AddExisting
           /\ call.out.count = Len(AddKept)
           /\ ~call.args.useChecker => call.out.count = Len(AddFetched)

\* The checker drops one of three fetched entries; two are put on top of an
\* existing entry.
C15_Witness ==
    /\ call.fn = "AddNewStreams" /\ ~call.out.err /\ ~call.out.killed
    /\ call.args.useChecker
    /\ Len(AddFetched) = 3 /\ call.out.count = 2
    /\ Len(AddExisting) = 1
    /\ Len(LoadQueue(call.out.file)) = 3

\* C16: when the fetcher returns nothing, or the checker reports every
\* fetched entry as processed, AddNewStreams returns (0, nil) and the queue
\* file is as before: not created, not rewritten.
C16_NothingToAdd ==
    (call.fn = "AddNewStreams" /\ AddFetchedOK
        /\ \/ Len(AddFetched) = 0
           \/ call.args.useChecker /\ call.args.fault # "check" /\ Len(AddKept) = 0)
        => /\ call.out.count = 0
           /\ ~call.out.err /\ ~call.out.killed
           /\ call.out.file = call.args.file

\* Every fetched entry is reported as processed and no file is created.
C16_Witness ==
    /\ call.fn = "AddNewStreams"
    /\ call.args.useChecker /\ Len(AddFetched) = 2 /\ Len(AddKept) = 0
    /\ call.args.file = NoFile /\ call.out.file = NoFile
    /\ call.out.count = 0 /\ ~call.out.err

\* C17: LoadQueue after SaveQueue returns a queue of the same length with the
\* same video_id, video_title and upload_date at every index.
C17_RoundTrip ==
    call.fn = "SaveLoad" =>
        /\ ~call.out.err
        /\ Len(call.out.queue) = Len(call.args.q)
        /\ \A i \in 1..Len(call.args.q) :
              /\ call.out.queue[i].VideoID = call.args.q[i].VideoID
              /\ call.out.queue[i].VideoTitle = call.args.q[i].VideoTitle
              /\ call.out.queue[i].UploadDate = call.args.q[i].UploadDate

\* A queue with an entry whose title is escaped in the file.
C17_Witness ==
    /\ call.fn = "SaveLoad"
    /\ call.args.q = <<OddEntry, QueueEntry(DatedChannel, "v2")>>
    /\ MarshalIndent(call.args.q)[1].video_title # OddEntry.VideoTitle

\* C18: LoadQueue returns the empty queue and no error for an absent file and
\* an error for a malformed one; processQueueVideos and the add command then
\* end with an error and leave the files and the tables alone, without a
\* fetch or an import.
C18_CorruptQueueAborts ==
    /\ [](\A qn \in QueueNames :
            /\ ~files[qn].exists => LoadQueue(files[qn]) = <<>> /\ ~LoadError(files[qn])
            /\ Malformed(files[qn]) => LoadError(files[qn]))
    /\ [][(pc = "load" /\ Malformed(files[qname]))
            => /\ pc' = "returned" /\ result' \in {"err", "crash"}
               /\ files' = files /\ db' = db]_vars
    /\ [][(pc = "idle" /\ pc' = "returned" /\ Malformed(files[qname']))
            => /\ result' = "err"
               /\ call' = NoCall
               /\ files' = files /\ db' = db]_vars

\* processQueueVideos has ended with an error on a malformed queue file.
C18_Witness ==
    /\ pc = "returned" /\ result = "err" /\ errAt = "load"
    /\ Malformed(files[qname])
    /\ db.videos # {}

\* C19: PrependToQueue returns the new entries followed by the existing
\* ones, both in their order and with nothing removed.
C19_PrependOrder ==
    call.fn = "PrependToQueue" =>
        /\ call.out.queue = call.args.r \o call.args.q
        /\ Len(call.out.queue) = Len(call.args.r) + Len(call.args.q)
        /\ call.args.r = <<>> => call.out.queue = call.args.q
        /\ call.args.q = <<>> => call.out.queue = call.args.r

\* An entry that is in both arguments is in the result twice.
C19_Witness ==
    /\ call.fn = "PrependToQueue"
    /\ call.args.q = <<QueueEntry(DatedChannel, "v2"), OddEntry>>
    /\ call.args.r = <<QueueEntry(DatedChannel, "v3"), QueueEntry(DatedChannel, "v2")>>
    /\ Len(call.out.queue) = 4

\* C20: RemoveLastEntry returns the last entry and the queue without it, or
\* a zero entry and the empty queue; TopEntry returns the first entry with
\* found, or not found for the empty queue.
C20_RemoveLastAndTop ==
    /\ call.fn = "RemoveLastEntry" =>
          IF call.args.q = <<>>
          THEN call.out.entry = NoEntry /\ call.out.queue = <<>>
          ELSE /\ call.out.entry = call.args.q[Len(call.args.q)]
               /\ call.out.queue \o <<call.out.entry>> = call.args.q
    /\ call.fn = "TopEntry" =>
          IF call.args.q = <<>>
          THEN ~call.out.found
          ELSE call.out.found /\ call.out.entry = call.args.q[1]

\* The last of two different entries has been removed.
C20_Witness ==
    /\ call.fn = "RemoveLastEntry"
    /\ call.args.q = <<QueueEntry(DatedChannel, "v3"), OddEntry>>
    /\ call.out.entry = OddEntry
    /\ call.out.queue = <<QueueEntry(DatedChannel, "v3")>>

\* C21: FilterUnprocessed returns the entries whose id the checker does not
\* report, in their original order: all of them when none is reported, none
\* when all are; when the checker fails it returns an error and no entries.
C21_FilterKeepsOrder ==
    call.fn = "FilterUnprocessed" =>
        LET q == call.args.q
            ids == {q[i].VideoID : i \in 1..Len(q)}
            keep == {i \in 1..Len(q) : q[i].VideoID \notin call.args.processed}
        IN  IF Len(q) > 0 /\ call.args.checkerFails
            THEN call.out.err /\ call.out.entries = <<>>
            ELSE /\ ~call.out.err
                 /\ call.out.entries = Pick(q, keep)
                 /\ ids \cap call.args.processed = {} => call.out.entries = q
                 /\ ids \subseteq call.args.processed => call.out.entries = <<>>

\* The first of two entries is reported as processed, the second is kept.
C21_Witness ==
    /\ call.fn = "FilterUnprocessed"
    /\ call.args.q = <<QueueEntry(DatedChannel, "v3"), QueueEntry(DatedChannel, "v2")>>
    /\ call.args.processed = {"v3"}
    /\ ~call.args.checkerFails
    /\ call.out.entries = <<QueueEntry(DatedChannel, "v2")>>

\* C22: ShouldUpdateLastProcessed is true iff the database date is empty or
\* the video's date is not below it: true for a fresher and for an equal
\* date, false for an older one, true for every date when the database date
\* is empty.
C22_UpdateIffNotOlder ==
    call.fn = "ShouldUpdateLastProcessed" =>
        LET v == call.args.videoUploadDate
            d == call.args.dbUploadDate
        IN  /\ call.out.update <=> (d = 0 \/ v >= d)
            /\ (d # 0 /\ v > d) => call.out.update
            /\ (d # 0 /\ v = d) => call.out.update
            /\ (d # 0 /\ v < d) => ~call.out.update
            /\ d = 0 => call.out.update

\* A video of the same date as the marked one is to be marked.
C22_Witness ==
    /\ call.fn = "ShouldUpdateLastProcessed"
    /\ call.args.videoUploadDate = 3 /\ call.args.dbUploadDate = 3
    /\ call.out.update

C24_NamesAndDoubles ==
    call.fn = "InsertMatch" =>
        /\ call.out.teamA = NamesOf(call.args.player1)
        /\ call.out.teamB = NamesOf(call.args.player2)
        /\ Cardinality(call.out.t.matches) = 1
        /\ \A m \in call.out.t.matches :
              m.is_doubles <=> (Len(NamesOf(call.args.player1)) > 1
                                   \/ Len(NamesOf(call.args.player2)) > 1)

\* A pair on one side and a single name on the other make a doubles match.
C24_Witness ==
    /\ call.fn = "InsertMatch"
    /\ call.args.player1 = <<"Ma", " ", "/", " ", "Xu", "/">>
    /\ call.args.player2 = <<"Zhang", " ", "/", " ">>
    /\ call.out.teamA = << <<"Ma">>, <<"Xu">> >>
    /\ call.out.teamB = << <<"Zhang">> >>
    /\ \A m \in call.out.t.matches : m.is_doubles

\* C30: when the fetcher or the checker fails, or the queue is empty and
\* afterVideoID is empty (the fetcher is then not called), AddNewStreams
\* returns (0, error) and the queue file is as before; the command, with an
\* empty queue, no VIDEO_ID and no marked video, fails before any fetch.
C30_AddFailsCleanly ==
    /\ (call.fn = "AddNewStreams" /\ ~Malformed(call.args.file)
          /\ \/ AddCutoff = ""
             \/ call.args.fault = "fetch"
             \/ call.args.fault = "check" /\ call.args.useChecker /\ Len(AddFetched) > 0)
          => /\ call.out.err /\ ~call.out.killed
             /\ call.out.count = 0
             /\ call.out.file = call.args.file
             /\ AddCutoff = "" => call.out.fetches = <<>>
    /\ (call.fn = "runMatchFinder" /\ ~Malformed(call.args.file)
          /\ LoadQueue(call.args.file) = <<>>
          /\ call.args.providedVideoID = "" /\ call.args.marked = "")
          => /\ ~call.out.called
             /\ call.out.out.err
             /\ call.out.out.fetches = <<>>
             /\ call.out.out.file = call.args.file

\* The checker fails after the fetcher has returned entries for a queue of
\* one entry; the file still holds that entry.
C30_Witness ==
    /\ call.fn = "AddNewStreams"
    /\ call.args.fault = "check" /\ call.args.useChecker
    /\ Len(AddExisting) = 1 /\ Len(AddFetched) >= 1
    /\ call.out.err /\ call.out.count = 0
    /\ LoadQueue(call.out.file) = AddExisting

\* C26 as stated: a failed operation ends the command with an error; in
\* particular, when the read of the marked upload date fails in the
\* watermark step, processQueueVideos returns an error and the marked video
\* stays as it is.
C26_ReadFailureFails ==
    [][(pc = "mark" /\ ~run.readErr /\ run'.readErr)
          => (pc' = "returned" /\ result' = "err" /\ db' = db)]_vars

\* C27: whatever AddNewStreams and processQueueVideos runs a single worker
\* has made, no video id occurs twice in a queue file.
C27_NoDuplicateInQueue ==
    \A qn \in QueueNames : NoDuplicateID(LoadQueue(files[qn]))

\* After a drain has imported a video, AddNewStreams has put new entries on
\* top of a queue that held entries.
C27_Witness ==
    /\ pc = "returned" /\ result = "ok"
    /\ call.fn = "AddNewStreams"
    /\ Len(LoadQueue(call.args.file)) >= 1
    /\ call.out.count >= 1
    /\ Len(LoadQueue(files[qname])) = Len(LoadQueue(call.args.file)) + call.out.count
    /\ db.videos # {}

\* C28: no step of an import, committed or failed, removes a committed
\* tournaments or players row, also when a re-import deletes the matches and
\* participants that referred to it.
C28_TournamentsPlayersKept ==
    [][db.tournaments \subseteq db'.tournaments /\ db.players \subseteq db'.players]_vars

\* v2 has been imported again with other players and another tournament: a
\* player and a tournament of the first import are in no match any more.
C28_Witness ==
    /\ pc = "save"
    /\ run.before.VideoID = "v2" /\ run.before.Matches = <<Doubles>>
    /\ outputFile.VideoID = "v2" /\ outputFile.Matches = <<Singles>>
    /\ \E pl \in db.players : \A p \in db.match_participants : p.player_id # pl.id
    /\ \E t \in db.tournaments : \A m \in db.matches : m.tournament_id # t.id

\* C25 as stated: a video whose title does not parse fails only its own
\* import; the other entries of the queue are imported while it stays
\* queued: the run that follows the failure works on another entry when the
\* queue holds one.
C25_OthersStillImported ==
    (pc = "docker" /\ run.k = 0 /\ Len(queue) >= 2
        /\ run.prev.outcome = "err" /\ run.prev.at = "title")
        => entry # run.prev.entry

\* C29: when the queue file has been changed by another AddNewStreams run
\* since the iteration loaded it, the iteration's SaveQueue writes its own
\* shortened copy: the file then holds the loaded queue without its last
\* entry, and none of the entries the other run had added.
C29_LostUpdate ==
    [][(pc = "save" /\ pc' \in {"load", "mark"}
          /\ ~LoadError(files[qname]) /\ LoadQueue(files[qname]) # queue)
          => /\ ~LoadError(files'[qname])
             /\ LoadQueue(files'[qname]) = Front(queue)
             /\ \A e \in Range(LoadQueue(files[qname])) \ Range(queue) :
                   e \notin Range(LoadQueue(files'[qname]))]_vars

\* The first iteration of a run has saved its queue after a second process
\* had added entries to the file; the added entries are not in the file.
C29_Witness ==
    /\ pc \in {"load", "mark"} /\ run.k = 1
    /\ call.fn = "AddNewStreams"
    /\ ~call.out.err /\ ~call.out.killed /\ call.out.count >= 1
    /\ \A i \in 1..call.out.count :
          LoadQueue(call.out.file)[i] \notin Range(LoadQueue(files[qname]))

C32_ArrayInOrder ==
    [][IsArray(outputFile) =>
         LET videos == outputFile.videos
             n == Len(videos)
             k == IF pc \in TxSteps THEN imp.videoIdx - 1 ELSE imp.videoIdx
             Untouched(d, i) == imported[videos[i].VideoID] = NoVideoJSON
                                   => VideoRows(d, videos[i].VideoID) = {}
         IN  /\ (pc \in {"import"} \cup TxSteps /\ pc' = "returned")
                   => /\ result' = "err"
                      /\ db' = db
                      /\ \A i \in 1..k : HeldOnce(db', videos[i])
                      /\ \A i \in (k + 1)..n : Untouched(db', i)
             /\ (pc = "tx_commit" /\ pc' # "returned")
                   => /\ \A i \in 1..(k + 1) : HeldOnce(db', videos[i])
                      /\ \A i \in (k + 2)..n : Untouched(db', i)
                      /\ pc' = IF k + 1 < n THEN "import" ELSE "save"
             /\ (pc = "import" /\ n = 0)
                   => (pc' = "returned" /\ result' = "err" /\ db' = db /\ seq' = seq)]_vars

\* The import of an array of two videos has failed in the transaction of the
\* second: the first is held, the second has no row.
C32_Witness ==
    /\ pc = "returned" /\ result = "err" /\ errAt \in TxSteps
    /\ IsArray(outputFile) /\ Len(outputFile.videos) = 2
    /\ run.done = {outputFile.videos[1].VideoID}
    /\ HeldOnce(db, outputFile.videos[1])
    /\ VideoRows(db, outputFile.videos[2].VideoID) = {}

\* C33 as stated, for the videos of one producer JSON array: when the import
\* of the array has ended and one of its videos is flagged last_processed,
\* every video of the array with an older upload date is held in the tables.
C33_OlderImportedFirst ==
    (pc = "returned" /\ IsArray(outputFile))
        => \A i, j \in 1..Len(outputFile.videos) :
              (/\ outputFile.videos[i].VideoID \in FlaggedIDs(db)
               /\ outputFile.videos[j].UploadDate < outputFile.videos[i].UploadDate)
                  => HeldOnce(db, outputFile.videos[j])

\* C34: when a second AddNewStreams has prepended entries between two
\* iterations of a drain, none of these entries but the newest is ever the
\* subject of the drain's UpdateLastProcessed, nor is the entry that was on
\* top when the drain started if the queue still held entries then; and a
\* drain that returns nil has imported every prepended entry and has called
\* UpdateLastProcessed for the newest of them.
C34_AdvanceForCurrentTop ==
    (/\ run.started /\ call.fn = "AddNewStreams"
     /\ ~call.out.err /\ ~call.out.killed /\ call.out.count >= 1)
        => LET new == SubSeq(LoadQueue(call.out.file), 1, call.out.count)
           IN  /\ \A i \in 2..Len(new) : new[i].VideoID \notin Range(run.advanced)
               /\ Len(LoadQueue(call.args.file)) > 0
                     => run.q0[1].VideoID \notin Range(run.advanced)
               /\ (pc = "returned" /\ result = "ok")
                     => /\ \A i \in 1..Len(new) : new[i].VideoID \in run.done
                        /\ new[1].VideoID \in Range(run.advanced)

\* A drain has returned nil after a second AddNewStreams had prepended an
\* entry to the entries still in the file.
C34_Witness ==
    /\ pc = "returned" /\ result = "ok" /\ run.started
    /\ call.fn = "AddNewStreams" /\ ~call.out.err /\ ~call.out.killed
    /\ call.out.count >= 1
    /\ Len(LoadQueue(call.args.file)) > 0
    /\ Range(run.advanced) = {LoadQueue(call.out.file)[1].VideoID}

\* The ids of the entries of a queue.
IDsOf(q) == {q[i].VideoID : i \in 1..Len(q)}

\* What C35 says of the steps and of the end of a drain: each save shortens
\* the queue file by its last entry; a drain that has ended has made as many
\* saves and imports as the queue had entries and
\* leaves the file empty; on an empty or absent queue the first load returns
\* nil and changes nothing.
DrainShape ==
    /\ [][(pc = "save" /\ pc' \in {"load", "mark"})
             => LoadQueue(files'[qname]) = Front(LoadQueue(files[qname]))]_vars
    /\ [][(pc = "load" /\ ~run.started /\ Len(LoadQueue(files[qname])) = 0)
             => (/\ pc' = "returned" /\ result' = "ok"
                 /\ db' = db /\ files' = files /\ run'.done = {}
                 /\ run'.advanced = <<>>)]_vars
    /\ [](pc = "returned" /\ run.started
             => /\ run.k = Len(run.q0)
                /\ run.done = IDsOf(run.q0)
                /\ Cardinality(run.done) = Len(run.q0)
                /\ LoadQueue(files[qname]) = <<>>)

\* C35 as stated: when container, import and SaveQueue succeed and nothing
\* else writes the file, a drain of n entries ends after n imports and n
\* saves of one entry less each, and returns nil with the file empty.
C35_DrainSucceeds ==
    /\ DrainShape
    /\ (pc = "load" /\ ~run.started) ~> (pc = "returned" /\ result = "ok")

\* C35, amended: as above, but the drain returns nil or, with the file
\* empty, the error of UpdateLastProcessed.
C35_DrainTerminates ==
    /\ DrainShape
    /\ (pc = "load" /\ ~run.started)
          ~> (pc = "returned" /\ (result = "ok" \/ (result = "err" /\ errAt = "mark")))
    /\ [](pc = "returned" /\ run.started /\ result = "err" => isLastItem)

\* A drain of a queue of three entries has returned nil.
C35_Witness ==
    /\ pc = "returned" /\ result = "ok"
    /\ Len(run.q0) = 3 /\ run.k = 3
    /\ LoadQueue(files[qname]) = <<>>

\* A tournament name in lower case.
LowerName(name) == [k \in 1..Len(name) |-> ToLower(name[k])]

\* No two rows of tables d share a natural key.
NoDuplicateKey(d) ==
    /\ \A a, b \in d.tournaments :
          (LowerName(a.name) = LowerName(b.name) /\ a.year = b.year) => a = b
    /\ \A a, b \in d.players : a.name = b.name => a = b
    /\ \A a, b \in d.videos : a.youtube_id = b.youtube_id => a = b

\* The names of both teams of a match entry.
TeamNames(mj) == Range(parsePlayerName(mj.player1)) \cup Range(parsePlayerName(mj.player2))

\* C36: with a single importer no committed state holds two tournaments with
\* the same lower-cased name and year, two players with the same name or two
\* videos with the same youtube_id; and a get-or-create step whose key has a
\* row inserts no row and uses the id of that row.
C36_GetOrCreateNoDuplicates ==
    /\ [](NoDuplicateKey(db))
    /\ [][(pc = "tx_tournament" /\ pc' = "tx_video")
             => LET tour == parseTournamentFromTitle(VideosOf(outputFile)[imp.videoIdx].VideoTitle)
                    found == {r \in tx.t.tournaments : r.name = tour.name /\ r.year = tour.year}
                IN  found # {} => /\ tx'.t.tournaments = tx.t.tournaments
                                  /\ imp'.tournamentID \in {r.id : r \in found}]_vars
    /\ [][(pc = "tx_video" /\ pc' = "tx_match")
             => LET found == VideoRows(tx.t, VideosOf(outputFile)[imp.videoIdx].VideoID)
                IN  found # {} => /\ {v.id : v \in tx'.t.videos} = {v.id : v \in tx.t.videos}
                                  /\ imp'.videoID \in {v.id : v \in found}]_vars
    /\ [][(pc = "tx_match" /\ pc' = "tx_match")
             => LET mj == VideosOf(outputFile)[imp.videoIdx].Matches[imp.m]
                    added == tx'.t.match_participants \ tx.t.match_participants
                IN  /\ tx.t.players \subseteq tx'.t.players
                    /\ \A new \in tx'.t.players \ tx.t.players :
                          /\ new.name \in TeamNames(mj)
                          /\ \A old \in tx.t.players : old.name # new.name
                    /\ \A old \in tx.t.players :
                          old.name \in TeamNames(mj)
                             => \E p \in added : p.player_id = old.id]_vars

\* An import whose title spells the tournament in other letter case than the
\* title that created the row has taken the id of that row.
C36_Witness ==
    /\ pc = "tx_video"
    /\ VideosOf(outputFile)[imp.videoIdx].VideoTitle = TitleDohaLower
    /\ Cardinality(db.tournaments) = 1
    /\ \E r \in db.tournaments : r.id = imp.tournamentID
    /\ \E v \in db.videos : v.title = TitleDoha
    /\ tx.t.tournaments = db.tournaments


\* The names of the players of a set of match_participants rows, by side.
SidesOf(t, rows) ==
    UNION {{<<pl.name, p.side>> : pl \in {x \in t.players : x.id = p.player_id}}
           : p \in rows}

\* C38: for each MatchEntry of an imported video, in input order, exactly one
\* Match row is inserted with the video's tournament and match_timestamp =
\* upload_date + timestamp seconds, with one MatchParticipant row per name of
\* player1's team on side A and one per name of player2's team on side B;
\* when the import commits the video has as many Match rows as the payload
\* has MatchEntry items.
C38_OneMatchPerEntry ==
    [][/\ (pc = "tx_match" /\ imp'.m = imp.m + 1)
          => LET mj == VideosOf(outputFile)[imp.videoIdx].Matches[imp.m]
                 teamA == parsePlayerName(mj.player1)
                 teamB == parsePlayerName(mj.player2)
                 newM == tx'.t.matches \ tx.t.matches
                 newP == tx'.t.match_participants \ tx.t.match_participants
             IN  /\ Cardinality(newM) = 1
                 /\ tx.t.matches \subseteq tx'.t.matches
                 /\ tx.t.match_participants \subseteq tx'.t.match_participants
                 /\ Cardinality({m \in tx.t.matches : m.video_id = imp.videoID}) = imp.m - 1
                 /\ \A r \in newM :
                       /\ r.tournament_id = imp.tournamentID
                       /\ r.video_id = imp.videoID
                       /\ r.match_timestamp = imp.uploadDate + mj.timestamp
                       /\ \A v \in tx.t.videos : v.id = imp.videoID => v.upload_date = imp.uploadDate
                       /\ \A o \in tx.t.matches : o.video_id = imp.videoID => o.id < r.id
                       /\ \A p \in newP : p.match_id = r.id
                 /\ Cardinality(newP) = Len(teamA) + Len(teamB)
                 /\ SidesOf(tx'.t, newP) = {<<teamA[i], "A">> : i \in 1..Len(teamA)}
                                            \cup {<<teamB[i], "B">> : i \in 1..Len(teamB)}
       /\ (pc = "tx_commit" /\ pc' # "returned")
          => LET vj == VideosOf(outputFile)[imp.videoIdx]
             IN  /\ Cardinality(MatchRows(db', vj.VideoID)) = Len(vj.Matches)
                 /\ \A v \in VideoRows(db', vj.VideoID) :
                       \A i \in 1..Len(vj.Matches) :
                          \E m \in MatchRows(db', vj.VideoID) :
                             /\ m.match_timestamp = v.upload_date + vj.Matches[i].timestamp
                             /\ \E t \in db'.tournaments :
                                   /\ t.id = m.tournament_id
                                   /\ t.name = parseTournamentFromTitle(vj.VideoTitle).name
                                   /\ t.year = parseTournamentFromTitle(vj.VideoTitle).year]_vars

\* The import of v3 with a singles and a doubles match has committed: two
\* Match rows, the doubles one 1200 seconds after the upload time, and six
\* MatchParticipant rows.
C38_Witness ==
    /\ pc = "save"
    /\ ~IsArray(outputFile)
    /\ outputFile.VideoID = "v3"
    /\ Len(outputFile.Matches) = 2
    /\ Cardinality(MatchRows(db, "v3")) = 2
    /\ ParticipantCount(db, "v3") = 6
    /\ \E m \in MatchRows(db, "v3") :
          m.is_doubles /\ m.match_timestamp = DateToTime(3) + 1200


\* Every match_participants row references a matches row and a players row,
\* and every matches row references a videos row and a tournaments row.
References(d) ==
    /\ \A p \in d.match_participants :
          /\ \E m \in d.matches : m.id = p.match_id
          /\ \E pl \in d.players : pl.id = p.player_id
    /\ \A m \in d.matches :
          /\ \E v \in d.videos : v.id = m.video_id
          /\ \E t \in d.tournaments : t.id = m.tournament_id

\* C39: in every committed database state reachable through imports, every
\* MatchParticipant row references an existing Match and an existing Player
\* and every Match references an existing Video and an existing Tournament;
\* a re-import leaves no participant rows of the matches it deleted.
C39_ReferencesExist ==
    /\ References(db)
    /\ (pc \in {"tx_match", "tx_mark", "tx_commit"} => References(tx.t))

\* v2, imported with a doubles match, has been imported again with a singles
\* match: its old match and four participant rows are gone, one match with
\* two participants is there, and the four players remain.
C39_Witness ==
    /\ pc = "save"
    /\ ~IsArray(outputFile)
    /\ outputFile.VideoID = "v2"
    /\ run.before # NoVideoJSON
    /\ run.before.Matches = <<Doubles>>
    /\ outputFile.Matches = <<Singles>>
    /\ ParticipantCount(db, "v2") = 2
    /\ Cardinality(db.players) = 4


\* The rows of the committed tables that importer p inserted.
RowsOf(p) ==
    {d \in importers[p].drew : \E r \in db[d[1]] : r.id = d[3]}

\* C37: when two importers run concurrently and both reference a
\* tournament, player or video key that does not exist yet, both lookups can
\* miss and both attempt the insert; at most one of the two inserts is
\* committed, an importer whose insert violates the unique constraint
\* returns an error and none of its transaction's rows is committed, and no
\* duplicate tournament, player or video row is ever committed.
C37_RaceLosesOne ==
    /\ NoDuplicateKey(db)
    /\ \A tb \in {"tournaments", "players", "videos"} :
          \A r1, r2 \in db[tb] : KeyOf(tb, r1) = KeyOf(tb, r2) => r1 = r2
    /\ importers[1].missed \cap importers[2].missed # {}
          => ~(importers[1].pc = "done" /\ importers[2].pc = "done")
    /\ \A d1 \in importers[1].drew, d2 \in importers[2].drew :
          (d1[1] = d2[1] /\ d1[2] = d2[2])
             => (importers[1].pc = "failed" \/ importers[2].pc = "failed")
    /\ \A p \in Importers :
          importers[p].pc = "failed"
             => /\ importers[p].result = "err"
                /\ RowsOf(p) = {}
                /\ \A pr \in db.match_participants :
                      \A d \in importers[p].drew : d[1] = "matches" => pr.match_id # d[3]

\* Both importers looked for the player Zhang and found no row, both went on
\* to insert it; the first has committed its video, the insert of the second
\* violated the unique constraint and its import returned an error after it
\* had inserted its tournament and its video.
C37_Witness ==
    /\ importers[1].pc = "done"
    /\ importers[2].pc = "failed"
    /\ importers[2].err = "unique"
    /\ <<"players", << <<"Zhang">> >> >> \in importers[1].missed \cap importers[2].missed
    /\ \E d \in importers[2].drew : d[1] = "videos"
    /\ Cardinality(db.players) >= 2

====
